---- MODULE Spec2Model ----
(***************************************************************************)
(* AutoForge workspace-provisioning engine.                                *)
(*                                                                         *)
(* Part 1: the Sequence Runner (CorePlatform.run_sequence) with the        *)
(*         ProgressTracker line state machine, the step dispatcher         *)
(*         (execute_python_method) and the conditional step handler.       *)
(* Part 2: the Subprocess Supervisor (CorePlatform.execute_shell_command)  *)
(*         driving one child process through a PTY.                        *)
(***************************************************************************)
EXTENDS Integers, Sequences, FiniteSets, TLC

\* ---------------------------------------------------------------------------
\* Bounds
\* ---------------------------------------------------------------------------
MaxSteps == 2      \* longest 'steps' list of a sequence document
MaxInline == 1     \* longest 'if_false' list of a conditional step
MaxOutput == 2     \* most bytes a child writes
MaxChunk == 2      \* largest max_read_chunk
MaxTimeout == 2    \* longest timeout, in polling intervals
MaxTicks == 4      \* the clock stops counting here
MaxPath == 4       \* most pieces of a path handed to path_erase
MaxInterval == 2   \* largest min_update_interval_ms
MaxClock == 3      \* milliseconds the tracker's clock advances
MaxCalls == 4      \* most ProgressTracker calls followed
MaxLength == 5     \* largest Content-Length and body, in units of 5 KB
MaxArgs == 3       \* most command-line options given to auto_forge_main
MaxText == 5       \* most characters of a text handed to environment_variable_expand
MaxComps == 3      \* most components of a dotted version
MaxLines == 2      \* most lines of a file read by validate_prerequisite
MaxDepth == 2      \* deepest nesting of a step's arguments mapping
MaxEntries == 3    \* most values in a step's arguments mapping
MaxToken == 3      \* most characters of a token of a command
MaxTokens == 2     \* most tokens of a command
MaxBytes == 3      \* most bytes a child writes whose content is followed

\* ---------------------------------------------------------------------------
\* Values
\* ---------------------------------------------------------------------------
None == "None"     \* Python's None where a string is expected
NoResponse == 0    \* CommandResultType.response is None (or empty)

\* The text an operation produces is identified by the step that produced it:
\* step idx of the sequence (sub = 0) or inline step sub of conditional idx.
ResponseOf(ctx) == ctx[1] * 10 + ctx[2]

\* Python truthiness of a response (None and "" are falsy)
Truthy(response) == response # NoResponse

\* local_types.CommandResultType and the other values a dispatch can yield
CommandResultType(rc, response) ==
    [kind |-> "result", return_code |-> rc, response |-> response, exc |-> None]
NoneValue == [kind |-> "None", return_code |-> 0, response |-> NoResponse, exc |-> None]
IntValue == [kind |-> "int", return_code |-> 0, response |-> NoResponse, exc |-> None]
Raise(exc) == [kind |-> "raise", return_code |-> 0, response |-> NoResponse, exc |-> exc]

\* What the called platform operation itself does:
\*   r0s  returns CommandResultType(return_code=0, response=<text>)
\*   r0n  returns CommandResultType(return_code=0, response=None)
\*   r1   returns CommandResultType(return_code=1, response=<text>) without raising
\*   str  returns a plain string
\*   none returns None (or any value that is neither result nor string)
\*   cfe  raises CommandFailedException carrying a result with return_code 1
\*   exc  raises any other exception
Outcomes == {"r0s", "r0n", "r1", "str", "none", "cfe", "exc"}

\* Inline steps store nothing and treat every exception alike
InlineOutcomes == {"r0s", "r1", "none", "exc"}

\* ---------------------------------------------------------------------------
\* SequenceErrorActionType
\* ---------------------------------------------------------------------------
Labels == {None, "default", "break", "resume", " Resume", "skip"}

\* label.strip().lower() on the labels above
StripLower(label) == IF label = " Resume" THEN "resume" ELSE label

from_label(label) ==
    IF label = None THEN "DEFAULT"
    ELSE LET l == StripLower(label) IN
         IF l = "default" THEN "DEFAULT"
         ELSE IF l = "break" THEN "BREAK"
         ELSE IF l = "resume" THEN "RESUME"
         ELSE "DEFAULT"

\* ---------------------------------------------------------------------------
\* ProgressTracker: _state is PRE (no line open) or BODY (line open).
\* The terminal is taken to be wide enough for every formatted line.
\* ---------------------------------------------------------------------------
set_pre(state) ==
    IF state # "PRE" THEN [ok |-> FALSE, state |-> state]
    ELSE [ok |-> TRUE, state |-> "BODY"]

set_result(state) ==
    IF state # "BODY" THEN [ok |-> FALSE, state |-> state]
    ELSE [ok |-> TRUE, state |-> "PRE"]

\* One tracker call as it is recorded in the history
Call(op, ctx, text, ok) == [op |-> op, ctx |-> ctx, text |-> text, ok |-> ok]

\* set_complete_line: set_pre, and set_result only if set_pre succeeded
set_complete_line(state, ctx, text) ==
    LET p == set_pre(state)
        r == set_result(p.state)
    IN IF p.ok
       THEN [ok |-> r.ok, state |-> r.state,
             calls |-> <<Call("set_pre", ctx, "", TRUE), Call("set_result", ctx, text, r.ok)>>]
       ELSE [ok |-> FALSE, state |-> p.state,
             calls |-> <<Call("set_pre", ctx, "", FALSE)>>]

\* ---------------------------------------------------------------------------
\* execute_python_method: call the operation and convert what it yields
\* ---------------------------------------------------------------------------
execute_python_method(outcome, ctx, quiet) ==
    CASE outcome = "r0s" -> CommandResultType(0, ResponseOf(ctx))
      [] outcome = "r0n" -> CommandResultType(0, NoResponse)
      [] outcome = "r1" -> CommandResultType(1, ResponseOf(ctx))
      [] outcome = "str" -> CommandResultType(0, ResponseOf(ctx))
      [] outcome = "none" -> NoneValue
      [] outcome = "cfe" ->
            IF quiet THEN CommandResultType(1, NoResponse)
            ELSE Raise("RuntimeError")
      [] outcome = "exc" ->
            \* quiet: results = CommandResultType().return_code = 1 binds results to 1
            IF quiet THEN IntValue
            ELSE Raise("Exception")

\* ---------------------------------------------------------------------------
\* Sequence documents
\* ---------------------------------------------------------------------------
StoreKeys == {None, "K"}

\* key.lower() of ToolBox.store_value
LowerKey(key) == IF key = "K" THEN "k" ELSE key

Step(disabled, label, method, key, if_true, if_false) ==
    [disabled |-> disabled, action_on_error |-> label, method |-> method,
     response_store_key |-> key, if_true |-> if_true, if_false |-> if_false]

\* The steps a document is made of: a disabled step; operation steps with
\* every label, and with a store key under the labels None and "resume";
\* steps without a method; conditional steps with if_false lists of every
\* length and if_true lists of length 0 and 1
StepShapes ==
    {Step(TRUE, None, "op", None, 0, 0)}
    \cup {Step(FALSE, l, "op", None, 0, 0) : l \in Labels}
    \cup {Step(FALSE, l, "op", "K", 0, 0) : l \in {None, "resume"}}
    \cup {Step(FALSE, l, None, None, 0, 0) : l \in {None, "resume"}}
    \cup {Step(FALSE, l, "conditional", None, 0, f) :
             l \in {None, "resume"}, f \in 0..MaxInline}
    \cup {Step(FALSE, l, "conditional", None, 1, f) :
             l \in {None, "resume"}, f \in 0..1}

StepLists == UNION {[1..n -> StepShapes] : n \in 0..MaxSteps}

\* The 'steps' entry of the document is a list, is missing, or is not a list;
\* other_list: the document holds some other non-empty nested list.
Documents ==
    {[steps_kind |-> "list", steps |-> s, other_list |-> FALSE] : s \in StepLists}
    \cup {[steps_kind |-> "list", steps |-> <<>>, other_list |-> TRUE]}
    \cup {[steps_kind |-> k, steps |-> <<>>, other_list |-> o] :
        k \in {"missing", "notalist"}, o \in BOOLEAN}

\* ToolBox.has_nested_list(data, require_non_empty_lists=True): the document
\* holds a nested list, and no list it holds is empty
has_nested_list(doc) ==
    /\ doc.steps_kind = "list" \/ doc.other_list
    /\ ~(doc.steps_kind = "list" /\ Len(doc.steps) = 0)

NoError == [type |-> None, step |-> 0, cause |-> None]
Error(type, step, cause) == [type |-> type, step |-> step, cause |-> cause]

\* ---------------------------------------------------------------------------
\* Paths and the file system path_erase works on
\* ---------------------------------------------------------------------------
\* A path string is the sequence of the pieces its separators cut it into:
\* "/home/u/" is <<"", "home", "u", "">>, "~" is <<"~">>.  A directory is the
\* sequence of names that leads to it from the root.
Names == {"home", "u", "Documents", "Desktop", "x"}
Pieces == Names \cup {"", ".", "..", "~", "$HOME"}
Paths == UNION {[1..n -> Pieces] : n \in 1..MaxPath}

Home == <<"home", "u">>
Cwd == Home    \* the working directory relative paths start from
Root == <<>>
Directories ==
    {Root, <<"home">>, Home, Home \o <<"Documents">>, Home \o <<"Desktop">>,
     Home \o <<"x">>}

\* ---------------------------------------------------------------------------
\* State
\* ---------------------------------------------------------------------------
VARIABLES
    sequence_data,        \* the document handed to run_sequence
    pc,                   \* idle, loop, inline, returned, raised
    idx,                  \* position in steps of the step the for loop is at
    sub,                  \* position in if_false of the next inline step
    step_number,          \* run_sequence's step_number
    warnings_count,       \* run_sequence's warnings_count
    last_step_results,    \* run_sequence's last_step_results
    tracker,              \* "None" while self._tracker is None, else "set"
    tracker_state,        \* ProgressTracker._state
    dynamic_vars_storage, \* ToolBox._dynamic_vars_storage
    variables,            \* the Variable Store read by variable expansion
    calls,                \* history: tracker calls with their return value
    dispatched,           \* history: operations called, with what $K expanded to
    stored,               \* history: store_value calls
    error,                \* the exception that reached the caller
    sh_pc,                \* execute_shell_command: idle, gate, gate_poll, loop,
                          \* loop_poll, returned, raised
    check,                \* argument check
    timeout,              \* argument timeout, in polling intervals; 0 = none
    process,              \* the child: state and returncode
    pending,              \* bytes the child has written and nobody has read
    written,              \* bytes the child has written so far
    received,             \* bytes the supervisor has read
    max_read_chunk,       \* argument max_read_chunk
    elapsed,              \* time.time() - start_time, in polling intervals
    master_fd,            \* PTY master descriptor: None, open, closed
    sh_result,            \* the result returned, or carried by the exception
    sh_error,             \* the exception execute_shell_command raised
    sh_class,             \* the class whose execute_shell_command runs
    use_pty,              \* argument use_pty
    sh_message,           \* the message of the error that reached the caller
    terminal,             \* ProgressTracker: what was written to sys.stdout
    last_update_time,     \* ProgressTracker._last_update_time, in ms
    now,                  \* time.time() * 1000
    min_update_interval_ms, \* ProgressTracker._min_update_interval_ms
    ret_val,              \* what the last ProgressTracker call returned
    fs,                   \* path_erase: the directories that exist
    erase_pc,             \* path_erase: idle, called, done
    erase_call,           \* path_erase: the last call's class and arguments
    erase_error,          \* path_erase: the exception the last call raised
    url_pc,               \* url_get: idle, reading, returned, raised
    content_length,       \* url_get: the Content-Length header, Unset if absent
    body,                 \* url_get: bytes the server still delivers
    downloaded_size,      \* url_get: downloaded_size
    out_file,             \* url_get: bytes in the destination file, Unset if none
    url_result,           \* url_get: the return_code of the result returned
    main_pc,              \* auto_forge_main: idle, parsed, forging, prompt,
                          \* exited
    argv,                 \* auto_forge_main: sys.argv without the program name
    exit_code,            \* auto_forge_main: the process exit code
    ended_by,             \* history: what ended the run
    expand_pc,            \* environment_variable_expand: idle, called,
                          \* returned, raised
    expand_text,          \* environment_variable_expand: the argument text
    restored_path,        \* environment_variable_expand: the value returned
    second_path,          \* the value returned for restored_path as argument
    val_pc,               \* validate_prerequisite: idle, called, done
    val_call,             \* validate_prerequisite: the class and the probe
    val_out,              \* validate_prerequisite: raised or the value returned
    sh_args,              \* history: what execute_shell_command was called with
    child_env,            \* the environment the child was started with
    create_pc,            \* path_create: idle, created, raised, created_again,
                          \* raised_again
    create_call,          \* path_create: the arguments of the first call
    create_error,         \* path_create: the exception of the last call
    fs_created,           \* history: the directories the first call left
    wrap_pc,              \* execute_python_method: idle, called, raised
    wrap_call,            \* execute_python_method: signature and arguments
    wrap_out,             \* execute_python_method: what the operation got
    cmd_pc,               \* shell=False test: idle, spawned, raised
    cmd_call,             \* shell=False test: the arguments shell and command_list
    out_pc,               \* output handling: idle, gate, loop, returned, raised
    out_call,             \* output handling: the arguments of the call
    out_child,            \* output handling: the child's state and returncode
    stream,               \* bytes the child wrote that nobody has read
    child_sent,           \* history: every byte the child wrote
    line_buffer,          \* line_buffer
    lines_queue,          \* lines_queue
    assembled,            \* history: every byte appended to line_buffer
    out_result            \* the result returned, or carried by the exception

rvars == <<sequence_data, pc, idx, sub, step_number, warnings_count,
           last_step_results, tracker, tracker_state, dynamic_vars_storage,
           variables, calls, dispatched, stored, error>>

shvars == <<sh_pc, check, timeout, process, pending, written, received,
            max_read_chunk, elapsed, master_fd, sh_result, sh_error, sh_class,
            use_pty, sh_message>>

tvars == <<terminal, last_update_time, now, min_update_interval_ms, ret_val>>

evars == <<fs, erase_pc, erase_call, erase_error>>

uvars == <<url_pc, content_length, body, downloaded_size, out_file, url_result>>

mvars == <<main_pc, argv, exit_code, ended_by>>

xvars == <<expand_pc, expand_text, restored_path, second_path>>

pvars == <<val_pc, val_call, val_out>>

\* The components that follow the first seven
cvars == <<sh_args, child_env>>

kvars == <<create_pc, create_call, create_error, fs_created>>

wvars == <<wrap_pc, wrap_call, wrap_out>>

nvars == <<cmd_pc, cmd_call>>

dvars == <<out_pc, out_call, out_child, stream, child_sent, line_buffer,
           lines_queue,
           assembled, out_result>>

yvars == <<nvars, dvars>>

zvars == <<pvars, cvars, kvars, wvars, yvars>>

ovars == <<tvars, evars, uvars, mvars, xvars, zvars>>

vars == <<rvars, shvars, ovars>>

steps == sequence_data.steps

Unset == -1   \* a name with no value in a store

\* No execute_shell_command call in progress
ShellIdle ==
    /\ sh_pc = "idle"
    /\ check = FALSE
    /\ timeout = 0
    /\ process = [state |-> "none", returncode |-> 0]
    /\ pending = 0
    /\ written = 0
    /\ received = 0
    /\ max_read_chunk = 1
    /\ elapsed = 0
    /\ master_fd = None
    /\ sh_result = [return_code |-> 0, response |-> None]
    /\ sh_error = None
    /\ sh_class = None
    /\ use_pty = TRUE
    /\ sh_message = None

\* No ProgressTracker call made yet
TrackerIdle ==
    /\ terminal = <<>>
    /\ last_update_time = 0
    /\ now = 0
    /\ min_update_interval_ms = 0
    /\ ret_val = [op |-> None, ok |-> FALSE, n |-> 0]

\* No path_erase call made yet
EraseIdle ==
    /\ fs = Directories
    /\ erase_pc = "idle"
    /\ erase_call = [cls |-> None, path |-> <<>>, allow_non_empty |-> FALSE,
                     target |-> <<None>>]
    /\ erase_error = None

\* No url_get call made yet
UrlIdle ==
    /\ url_pc = "idle"
    /\ content_length = Unset
    /\ body = 0
    /\ downloaded_size = 0
    /\ out_file = Unset
    /\ url_result = Unset

\* auto_forge_main not started
MainIdle ==
    /\ main_pc = "idle"
    /\ argv = <<>>
    /\ exit_code = Unset
    /\ ended_by = None

\* environment_variable_expand not called
ExpandIdle ==
    /\ expand_pc = "idle"
    /\ expand_text = <<>>
    /\ restored_path = <<>>
    /\ second_path = <<>>

\* Environments map the keys they define to a value; the value tells where
\* it comes from
Keys == {"KEY"}
Environments(value) == {[k \in D |-> value] : D \in SUBSET Keys}

\* os.environ, the Variable Store export and the caller's env (an empty one
\* stands for env=None as well)
EnvSources ==
    [process : Environments("process"), store : Environments("store"),
     caller : Environments("caller")]

NoTimeout == -1   \* timeout=None: the caller passes no timeout

\* No execute_shell_command call made
ShellArgsIdle ==
    /\ sh_args = [timeout |-> NoTimeout, interactive |-> FALSE,
                  automated |-> FALSE,
                  env |-> [process |-> <<>>, store |-> <<>>, caller |-> <<>>]]
    /\ child_env = <<>>

\* validate_prerequisite not called
ValidateIdle ==
    /\ val_pc = "idle"
    /\ val_call = None
    /\ val_out = None

\* The components that follow the first seven are idle
\* path_create not called
CreateIdle ==
    /\ create_pc = "idle"
    /\ create_call = [path |-> <<>>, project_path |-> FALSE]
    /\ create_error = None
    /\ fs_created = {}

\* execute_python_method not called
WrapIdle ==
    /\ wrap_pc = "idle"
    /\ wrap_call = [sig |-> <<>>, arguments |-> {}]
    /\ wrap_out = [error |-> None, arguments |-> {}, method_kwargs |-> <<>>,
                   extra_kwargs |-> <<>>]

\* No command handed to the shell=False test
CompoundIdle ==
    /\ cmd_pc = "idle"
    /\ cmd_call = [shell |-> TRUE, command_list |-> <<>>]

\* No call whose output is followed
OutputIdle ==
    /\ out_pc = "idle"
    /\ out_call = [searched_token |-> FALSE, max_read_chunk |-> 1, check |-> FALSE]
    /\ out_child = [state |-> "none", returncode |-> 0]
    /\ stream = <<>>
    /\ child_sent = <<>>
    /\ line_buffer = <<>>
    /\ lines_queue = <<>>
    /\ assembled = <<>>
    /\ out_result = [return_code |-> 0, early |-> FALSE]

FurtherIdle ==
    /\ ValidateIdle /\ ShellArgsIdle /\ CreateIdle /\ WrapIdle
    /\ CompoundIdle /\ OutputIdle

OthersIdle ==
    TrackerIdle /\ EraseIdle /\ UrlIdle /\ MainIdle /\ ExpandIdle /\ FurtherIdle

\* No run_sequence call made
RunnerIdle ==
    /\ sequence_data = [steps_kind |-> "missing", steps |-> <<>>, other_list |-> FALSE]
    /\ pc = "idle"
    /\ idx = 1
    /\ sub = 0
    /\ step_number = 0
    /\ warnings_count = 0
    /\ last_step_results = NoneValue
    /\ tracker = None
    /\ tracker_state = "PRE"
    /\ dynamic_vars_storage = [k \in {"k"} |-> Unset]
    /\ variables = [k \in {"k"} |-> Unset]
    /\ calls = <<>>
    /\ dispatched = <<>>
    /\ stored = <<>>
    /\ error = NoError

Init ==
    /\ ShellIdle
    /\ OthersIdle
    /\ sequence_data \in Documents
    /\ pc = "idle"
    /\ idx = 1
    /\ sub = 0
    /\ step_number = 0
    /\ warnings_count = 0
    /\ last_step_results = NoneValue
    /\ tracker = None
    /\ tracker_state = "PRE"
    /\ dynamic_vars_storage = [k \in {"k"} |-> Unset]
    /\ variables = [k \in {"k"} |-> Unset]
    /\ calls = <<>>
    /\ dispatched = <<>>
    /\ stored = <<>>
    /\ error = NoError

\* ---------------------------------------------------------------------------
\* Stores
\* ---------------------------------------------------------------------------
\* ToolBox.store_value: keys are lower-cased, None values are refused
store_value(storage, key, value) ==
    IF value = NoResponse \/ key = None THEN storage
    ELSE [storage EXCEPT ![LowerKey(key)] = value]

\* CoreVariables.expand("$K"): the value the Variable Store holds for K
expand(key) == variables[LowerKey(key)]

Dispatch(ctx, outcome) == [ctx |-> ctx, outcome |-> outcome, seen |-> expand("K")]

\* ---------------------------------------------------------------------------
\* run_sequence
\* ---------------------------------------------------------------------------
\* Entry: validation of the document, tracker set-up and the version line.
RunSequenceEnter ==
    /\ pc = "idle"
    /\ IF ~has_nested_list(sequence_data)
       THEN \* raised before the try block: no handler, no finally
            /\ error' = Error("ValueError", 0, None)
            /\ pc' = "raised"
            /\ UNCHANGED <<tracker, tracker_state, calls>>
       ELSE IF sequence_data.steps_kind # "list" \/ Len(steps) = 0
       THEN \* ValueError raised inside the try block while self._tracker is
            \* still None: the handler's self._tracker.set_result fails
            /\ error' = Error("AttributeError", 0, None)
            /\ pc' = "raised"
            /\ UNCHANGED <<tracker, tracker_state, calls>>
       ELSE LET c == set_complete_line("PRE", <<0, 0>>, "version") IN
            /\ tracker' = "set"
            /\ tracker_state' = c.state
            /\ calls' = calls \o c.calls
            /\ pc' = "loop"
            /\ UNCHANGED error
    /\ UNCHANGED <<sequence_data, idx, sub, step_number, warnings_count,
                   last_step_results, dynamic_vars_storage, variables,
                   dispatched, stored>>
    /\ UNCHANGED <<shvars, ovars>>

\* Result handling after the try block, then step_number += 1
AfterStep(step, ctx, st, evs, last) ==
    LET success == last.kind = "result" /\ last.return_code = 0
        key == step.response_store_key
        do_store == success /\ key # None /\ Truthy(last.response)
        r == set_result(st)
    IN /\ last_step_results' = last
       /\ dynamic_vars_storage' =
             IF do_store THEN store_value(dynamic_vars_storage, key, last.response)
             ELSE dynamic_vars_storage
       /\ stored' =
             IF do_store
             THEN Append(stored, [ctx |-> ctx, key |-> LowerKey(key), value |-> last.response])
             ELSE stored
       /\ tracker_state' = IF success THEN r.state ELSE st
       /\ calls' = calls \o evs \o
             (IF success THEN <<Call("set_result", ctx, "OK", r.ok)>> ELSE <<>>)
       /\ step_number' = step_number + 1
       /\ idx' = idx + 1
       /\ sub' = 0
       /\ pc' = "loop"
       /\ UNCHANGED <<error, tracker>>

\* The outer handler: Error tag, wrapped error, finally block
Abort(ctx, st, evs, cause) ==
    LET r == set_result(st) IN
    /\ tracker_state' = r.state
    /\ calls' = calls \o evs \o <<Call("set_result", ctx, "Error", r.ok)>>
    /\ error' = Error("RuntimeError", step_number + 1, cause)
    /\ pc' = "raised"
    /\ tracker' = None
    /\ UNCHANGED <<last_step_results, dynamic_vars_storage, stored,
                   step_number, idx, sub, warnings_count>>

\* The except clause of the step's try block
OnStepResult(step, st, evs, ret) ==
    LET ctx == <<idx, 0>>
        action_on_error == from_label(step.action_on_error)
    IN IF ret.kind = "raise"
       THEN IF action_on_error \in {"BREAK", "DEFAULT"}
            THEN Abort(ctx, st, evs, ret.exc)
            ELSE LET r == set_result(st) IN
                 /\ warnings_count' = warnings_count + 1
                 /\ AfterStep(step, ctx, r.state,
                              evs \o <<Call("set_result", ctx, "WARNING", r.ok)>>,
                              last_step_results)
       ELSE /\ UNCHANGED warnings_count
            /\ AfterStep(step, ctx, st, evs, ret)

\* for step in steps: a disabled step is passed over
SkipDisabled ==
    /\ pc = "loop" /\ idx <= Len(steps)
    /\ steps[idx].disabled
    /\ idx' = idx + 1
    /\ UNCHANGED <<sequence_data, pc, sub, step_number, warnings_count,
                   last_step_results, tracker, tracker_state,
                   dynamic_vars_storage, variables, calls, dispatched,
                   stored, error>>
    /\ UNCHANGED <<shvars, ovars>>

\* A step without a usable 'method' or 'arguments'
MissingMethodStep ==
    /\ pc = "loop" /\ idx <= Len(steps)
    /\ ~steps[idx].disabled /\ steps[idx].method = None
    /\ LET ctx == <<idx, 0>>
           p == set_pre(tracker_state)
       IN OnStepResult(steps[idx], p.state, <<Call("set_pre", ctx, "", p.ok)>>,
                       Raise("RuntimeError"))
    /\ UNCHANGED <<sequence_data, variables, dispatched>>
    /\ UNCHANGED <<shvars, ovars>>

\* One iteration of the loop for a step that names an operation
ExecuteStep(outcome) ==
    /\ pc = "loop" /\ idx <= Len(steps)
    /\ ~steps[idx].disabled /\ steps[idx].method = "op"
    /\ LET ctx == <<idx, 0>>
           p == set_pre(tracker_state)
           ret == execute_python_method(outcome, ctx, FALSE)
       IN /\ dispatched' = Append(dispatched, Dispatch(ctx, outcome))
          /\ OnStepResult(steps[idx], p.state, <<Call("set_pre", ctx, "", p.ok)>>, ret)
    /\ UNCHANGED <<sequence_data, variables>>
    /\ UNCHANGED <<shvars, ovars>>

\* ConditionBranch with the test of the condition's return code inverted
ConditionBranchInverted(result, step) ==
    IF result.kind # "result" THEN "attr"
    ELSE IF result.return_code # 0
         THEN IF step.if_true > 0 THEN "true" ELSE "pass"
         ELSE IF step.if_false = 0 THEN "empty" ELSE "false"

\* _handle_conditional_step: which way the evaluated condition sends the step
\*   "attr"   result has no return_code (None or int): AttributeError
\*   "pass"   condition passed, nothing to run
\*   "true"   condition passed with an if_true block: NotImplementedError
\*   "empty"  condition failed without if_false steps: RuntimeError
\*   "false"  condition failed: run the if_false steps
ConditionBranch(result, step) ==
    IF result.kind # "result" THEN "attr"
    ELSE IF result.return_code = 0
         THEN IF step.if_true > 0 THEN "true" ELSE "pass"
         ELSE IF step.if_false = 0 THEN "empty" ELSE "false"

\* A conditional step up to the point where its inline steps start
ConditionalStep(outcome) ==
    /\ pc = "loop" /\ idx <= Len(steps)
    /\ ~steps[idx].disabled /\ steps[idx].method = "conditional"
    /\ LET step == steps[idx]
           ctx == <<idx, 0>>
           p == set_pre(tracker_state)
           pre == <<Call("set_pre", ctx, "", p.ok)>>
           result == execute_python_method(outcome, ctx, TRUE)
           branch == ConditionBranch(result, step)
       IN /\ dispatched' = Append(dispatched, Dispatch(ctx, outcome))
          /\ CASE branch = "attr" -> OnStepResult(step, p.state, pre, Raise("AttributeError"))
               [] branch = "true" -> OnStepResult(step, p.state, pre, Raise("NotImplementedError"))
               [] branch = "empty" -> OnStepResult(step, p.state, pre, Raise("RuntimeError"))
               [] branch = "pass" -> OnStepResult(step, p.state, pre, result)
               [] branch = "false" ->
                    LET r == set_result(p.state) IN
                    /\ tracker_state' = r.state
                    /\ calls' = calls \o pre \o <<Call("set_result", ctx, "NO", r.ok)>>
                    /\ pc' = "inline"
                    /\ sub' = 1
                    /\ UNCHANGED <<idx, step_number, warnings_count,
                                   last_step_results, tracker,
                                   dynamic_vars_storage, stored, error>>
    /\ UNCHANGED <<sequence_data, variables>>
    /\ UNCHANGED <<shvars, ovars>>

\* _run_inline_steps: one inline step; after the last one, or on a failure,
\* control is back in run_sequence
InlineStep(outcome) ==
    /\ pc = "inline"
    /\ LET step == steps[idx]
           ctx == <<idx, sub>>
           p == set_pre(tracker_state)
           pre == <<Call("set_pre", ctx, "", p.ok)>>
           ret == execute_python_method(outcome, ctx, FALSE)
           failed == ret.kind # "result" \/ ret.return_code # 0
           r == set_result(p.state)
       IN /\ dispatched' = Append(dispatched, Dispatch(ctx, outcome))
          /\ IF failed
             THEN OnStepResult(step, r.state,
                               pre \o <<Call("set_result", ctx, "FAILED", r.ok)>>,
                               Raise("RuntimeError"))
             ELSE IF sub < step.if_false
             THEN /\ tracker_state' = r.state
                  /\ calls' = calls \o pre \o <<Call("set_result", ctx, "OK", r.ok)>>
                  /\ sub' = sub + 1
                  /\ UNCHANGED <<pc, idx, step_number, warnings_count,
                                 last_step_results, tracker,
                                 dynamic_vars_storage, stored, error>>
             ELSE OnStepResult(step, r.state,
                               pre \o <<Call("set_result", ctx, "OK", r.ok)>>, ret)
    /\ UNCHANGED <<sequence_data, variables>>
    /\ UNCHANGED <<shvars, ovars>>

\* After the last step: the elapsed-time line, set_end, return 0
RunSequenceFinish ==
    /\ pc = "loop" /\ idx > Len(steps)
    /\ LET c == set_complete_line(tracker_state, <<idx, 0>>, "Install took") IN
       /\ tracker_state' = c.state
       /\ calls' = calls \o c.calls
    /\ pc' = "returned"
    /\ tracker' = None
    /\ UNCHANGED <<sequence_data, idx, sub, step_number, warnings_count,
                   last_step_results, dynamic_vars_storage, variables,
                   dispatched, stored, error>>
    /\ UNCHANGED <<shvars, ovars>>

Next ==
    \/ RunSequenceEnter
    \/ SkipDisabled
    \/ MissingMethodStep
    \/ \E outcome \in Outcomes : ExecuteStep(outcome)
    \/ \E outcome \in Outcomes : ConditionalStep(outcome)
    \/ \E outcome \in InlineOutcomes : InlineStep(outcome)
    \/ RunSequenceFinish

Spec == Init /\ [][Next]_vars

\* ---------------------------------------------------------------------------
\* execute_shell_command (CorePlatform and CoreEnvironment) and its child
\* ---------------------------------------------------------------------------
ReturnCodes == {0, 1, 2}

InProgress == sh_pc \in {"gate", "gate_poll", "loop", "loop_poll",
                         "env_wait", "env_loop"}

Min(a, b) == IF a < b THEN a ELSE b

\* The response built from the lines read: None on the early exit
ShellResult(rc, response) == [return_code |-> rc, response |-> response]

\* except subprocess.TimeoutExpired: the only exception the handler turns into
\* CommandFailedException; the built-in TimeoutError is not one of them
Except(exc) == IF exc = "TimeoutExpired" THEN "CommandFailedException" ELSE exc

\* Leaving the call by an exception raised inside the try block; the finally
\* block closes the PTY master
RaiseShell(exc, result, message) ==
    /\ sh_pc' = "raised"
    /\ sh_error' = Except(exc)
    /\ sh_result' = IF exc = "TimeoutExpired" THEN ShellResult(-9, None) ELSE result
    /\ sh_message' = message
    /\ master_fd' = IF master_fd # None THEN "closed" ELSE master_fd

\* Leaving the call by return; the finally block closes the PTY master
ReturnShell(result) ==
    /\ sh_pc' = "returned"
    /\ sh_result' = result
    /\ master_fd' = IF master_fd # None THEN "closed" ELSE master_fd
    /\ UNCHANGED <<sh_error, sh_message>>

\* The configured default timeout of CorePlatform (subprocess_execution_timout
\* of the configuration), taken within the reach of the clock
subprocess_execution_timout == MaxTimeout

\* timeout = self._subprocess_execution_timout if timeout is None else timeout
PlatformTimeout(t) == IF t = NoTimeout THEN subprocess_execution_timout ELSE t

\* dict.update: b laid over a
Overlay(a, b) ==
    [k \in DOMAIN a \cup DOMAIN b |-> IF k \in DOMAIN b THEN b[k] ELSE a[k]]

\* proc_env with the Variable Store export laid over the caller's env
proc_env_store_last(e) ==
    LET with_caller == IF e.caller # <<>> THEN Overlay(e.process, e.caller)
                       ELSE e.process
    IN Overlay(with_caller, e.store)

\* proc_env: os.environ.copy(), update(variables_env), update(env) if env
proc_env(e) ==
    LET with_store == Overlay(e.process, e.store)
    IN IF e.caller # <<>> THEN Overlay(with_store, e.caller) ELSE with_store

\* CorePlatform.execute_shell_command: open the PTY (or the pipes), spawn the
\* child, start_time = time.time().  Popen is inside the try block.
ShellCall(c, t, m, p, spawn, e) ==
    /\ sh_pc = "idle"
    /\ sh_class' = "CorePlatform"
    /\ sh_args' = [timeout |-> t, interactive |-> FALSE, automated |-> FALSE,
                   env |-> e]
    /\ use_pty' = p
    /\ check' = c
    /\ timeout' = PlatformTimeout(t)
    /\ max_read_chunk' = m
    /\ elapsed' = 0
    /\ IF spawn
       THEN /\ master_fd' = IF p THEN "open" ELSE None
            /\ process' = [state |-> "running", returncode |-> 0]
            /\ child_env' = proc_env(e)
            /\ sh_pc' = "gate"
            /\ UNCHANGED <<sh_error, sh_message>>
       ELSE \* Popen raises; finally closes the master opened at line 885
            /\ master_fd' = IF p THEN "closed" ELSE None
            /\ sh_pc' = "raised"
            /\ sh_error' = "OSError"
            /\ sh_message' = "spawn"
            /\ UNCHANGED <<process, child_env>>
    /\ UNCHANGED <<pending, written, received, sh_result>>
    /\ UNCHANGED <<rvars, tvars, evars, uvars, mvars, xvars, pvars, kvars, wvars,
                   yvars>>

\* CorePlatform.execute_shell_command on a command of the interactive list:
\* execute_fullscreen_shell_command refuses in automated work mode and
\* otherwise runs the child on the terminal until it ends with rc; then the
\* check of the result
ShellCallInteractive(c, t, automated, rc, e) ==
    /\ sh_pc = "idle"
    /\ sh_class' = "CorePlatform"
    /\ sh_args' = [timeout |-> t, interactive |-> TRUE, automated |-> automated,
                   env |-> e]
    /\ check' = c
    /\ timeout' = PlatformTimeout(t)
    /\ LET results == IF automated THEN ShellResult(1, None) ELSE ShellResult(rc, "")
           message == IF automated THEN "not allowed in automatic mode" ELSE None
       IN /\ process' = IF automated THEN process
                        ELSE [state |-> "exited", returncode |-> rc]
          /\ child_env' = IF automated THEN child_env ELSE proc_env(e)
          /\ sh_result' = results
          /\ sh_message' = message
          /\ IF c /\ results.return_code # 0
             THEN /\ sh_pc' = "raised"
                  /\ sh_error' = "CommandFailedException"
             ELSE /\ sh_pc' = "returned"
                  /\ UNCHANGED sh_error
    /\ UNCHANGED <<use_pty, max_read_chunk, elapsed, master_fd, pending, written,
                   received>>
    /\ UNCHANGED <<rvars, tvars, evars, uvars, mvars, xvars, pvars, kvars, wvars,
                   yvars>>

\* The child writes one byte to its terminal
ChildWrite ==
    /\ InProgress
    /\ process.state = "running"
    /\ written < MaxOutput
    /\ written' = written + 1
    /\ pending' = pending + 1
    /\ UNCHANGED <<sh_pc, sh_class, use_pty, check, timeout, process, received,
                   max_read_chunk, elapsed, master_fd, sh_result, sh_error,
                   sh_message>>
    /\ UNCHANGED <<rvars, ovars>>

\* The child exits
ChildExit(rc) ==
    /\ InProgress
    /\ process.state = "running"
    /\ process' = [state |-> "exited", returncode |-> rc]
    /\ UNCHANGED <<sh_pc, sh_class, use_pty, check, timeout, pending, written,
                   received, max_read_chunk, elapsed, master_fd, sh_result,
                   sh_error, sh_message>>
    /\ UNCHANGED <<rvars, ovars>>

\* Time passes while the supervisor is busy
ClockTick ==
    /\ InProgress
    /\ elapsed < MaxTicks
    /\ elapsed' = elapsed + 1
    /\ UNCHANGED <<sh_pc, sh_class, use_pty, check, timeout, process, pending,
                   written, received, max_read_chunk, master_fd, sh_result,
                   sh_error, sh_message>>
    /\ UNCHANGED <<rvars, ovars>>

\* while not output_ready: the timeout check and the wait for readability.
\* Without a PTY _is_readable selects on [process.stdout, process.stderr] and
\* process.stderr is None (stderr=subprocess.STDOUT): select raises TypeError.
GateSelect ==
    /\ sh_pc = "gate"
    /\ IF timeout > 0 /\ elapsed > timeout
       THEN /\ RaiseShell("TimeoutError", sh_result, "did not produce output after")
            /\ UNCHANGED elapsed
       ELSE IF ~use_pty
       THEN /\ RaiseShell("TypeError", sh_result, "fileno")
            /\ UNCHANGED elapsed
       ELSE IF pending > 0
       THEN /\ sh_pc' = "loop"
            /\ UNCHANGED <<elapsed, master_fd, sh_result, sh_error, sh_message>>
       ELSE \* select timed out after one polling interval
            /\ sh_pc' = "gate_poll"
            /\ elapsed' = Min(elapsed + 1, MaxTicks)
            /\ UNCHANGED <<master_fd, sh_result, sh_error, sh_message>>
    /\ UNCHANGED <<sh_class, use_pty, check, timeout, process, pending, written,
                   received, max_read_chunk>>
    /\ UNCHANGED <<rvars, ovars>>

\* while not output_ready: nothing readable, has the child exited?
GatePoll ==
    /\ sh_pc = "gate_poll"
    /\ IF process.state = "exited"
       THEN \* early_exit_no_output
            ReturnShell(ShellResult(process.returncode, None))
       ELSE /\ sh_pc' = "gate"
            /\ UNCHANGED <<master_fd, sh_result, sh_error, sh_message>>
    /\ UNCHANGED <<sh_class, use_pty, check, timeout, process, pending, written,
                   received, max_read_chunk, elapsed>>
    /\ UNCHANGED <<rvars, ovars>>

\* while True: read what is readable
LoopSelect ==
    /\ sh_pc = "loop"
    /\ IF pending > 0
       THEN LET n == Min(pending, max_read_chunk) IN
            /\ received' = received + n
            /\ pending' = pending - n
            /\ UNCHANGED <<sh_pc, elapsed>>
       ELSE /\ sh_pc' = "loop_poll"
            /\ elapsed' = Min(elapsed + 1, MaxTicks)
            /\ UNCHANGED <<received, pending>>
    /\ UNCHANGED <<sh_class, use_pty, check, timeout, process, written,
                   max_read_chunk, master_fd, sh_result, sh_error, sh_message>>
    /\ UNCHANGED <<rvars, ovars>>

\* Post execution: the result, and CommandFailedException under check
PostExecution ==
    LET results == ShellResult(process.returncode, "text") IN
    IF check /\ process.returncode # 0
    THEN RaiseShell("CommandFailedException", results, "non zero return code")
    ELSE ReturnShell(results)

\* while True: nothing readable; child exited, or timed out, or go on
LoopPoll ==
    /\ sh_pc = "loop_poll"
    /\ IF process.state = "exited"
       THEN /\ PostExecution
            /\ UNCHANGED process
       ELSE IF timeout > 0 /\ elapsed > timeout
       THEN /\ process' = [state |-> "killed", returncode |-> -9]
            /\ RaiseShell("TimeoutError", sh_result, "timed out after")
       ELSE /\ sh_pc' = "loop"
            /\ UNCHANGED <<process, master_fd, sh_result, sh_error, sh_message>>
    /\ UNCHANGED <<sh_class, use_pty, check, timeout, pending, written, received,
                   max_read_chunk, elapsed>>
    /\ UNCHANGED <<rvars, ovars>>

\* CoreEnvironment: timeout = self._default_execution_time is timeout is None,
\* a chained identity test whose value is a bool (False is 0, True is 1)
default_execution_time == 60
EnvTimeout(t) == IF default_execution_time = t /\ t = NoTimeout THEN 1 ELSE 0

\* CoreEnvironment.execute_shell_command: the PTY is opened and the child is
\* spawned before the try block is entered
EnvShellCall(c, t, p, spawn, e) ==
    /\ sh_pc = "idle"
    /\ sh_class' = "CoreEnvironment"
    /\ sh_args' = [timeout |-> t, interactive |-> FALSE, automated |-> FALSE,
                   env |-> e]
    /\ use_pty' = p
    /\ check' = c
    /\ timeout' = EnvTimeout(t)
    /\ max_read_chunk' = 1
    /\ elapsed' = 0
    /\ master_fd' = IF p THEN "open" ELSE None
    /\ IF spawn
       THEN /\ process' = [state |-> "running", returncode |-> 0]
            \* Popen(env=env): the caller's env alone, else what is inherited
            /\ child_env' = IF e.caller # <<>> THEN e.caller ELSE e.process
            /\ sh_pc' = "env_wait"
            /\ UNCHANGED <<sh_error, sh_message>>
       ELSE \* Popen raises outside the try block: no finally runs
            /\ sh_pc' = "raised"
            /\ sh_error' = "OSError"
            /\ sh_message' = "spawn"
            /\ UNCHANGED <<process, child_env>>
    /\ UNCHANGED <<pending, written, received, sh_result>>
    /\ UNCHANGED <<rvars, tvars, evars, uvars, mvars, xvars, pvars, kvars, wvars,
                   yvars>>

\* CoreEnvironment: while process.poll() is not None: sleep, timeout check
EnvStartWait ==
    /\ sh_pc = "env_wait"
    /\ IF process.state = "exited"
       THEN IF timeout > 0 /\ elapsed > timeout
            THEN /\ RaiseShell("TimeoutError", sh_result, "didn't start after")
                 /\ UNCHANGED elapsed
            ELSE UNCHANGED <<sh_pc, elapsed, master_fd, sh_result, sh_error,
                             sh_message>>
       ELSE \* start_time = time.time() again
            /\ sh_pc' = "env_loop"
            /\ elapsed' = 0
            /\ UNCHANGED <<master_fd, sh_result, sh_error, sh_message>>
    /\ UNCHANGED <<sh_class, use_pty, check, timeout, process, pending, written,
                   received, max_read_chunk>>
    /\ UNCHANGED <<rvars, ovars>>

\* CoreEnvironment, after the loop: process.wait(), CalledProcessError under
\* check, else the response text is returned
EnvPost ==
    IF check /\ process.returncode # 0
    THEN RaiseShell("CalledProcessError", sh_result, "non-zero exit status")
    ELSE ReturnShell([sh_result EXCEPT !.response = "text"])

\* CoreEnvironment: while True: read one byte, or see the child gone; the
\* timeout check follows on every iteration that does not break
EnvLoop ==
    /\ sh_pc = "env_loop"
    /\ IF pending = 0 /\ process.state = "exited"
       THEN \* PTY: nothing readable and poll() is set; pipes: read returns b''
            /\ EnvPost
            /\ UNCHANGED <<process, pending, received>>
       ELSE /\ IF pending > 0
               THEN /\ received' = received + 1
                    /\ pending' = pending - 1
               ELSE UNCHANGED <<received, pending>>
            /\ IF timeout > 0 /\ elapsed > timeout
               THEN /\ process' = [state |-> "killed", returncode |-> -9]
                    /\ RaiseShell("TimeoutError", sh_result, "timed out after")
               ELSE UNCHANGED <<sh_pc, process, master_fd, sh_result, sh_error,
                                sh_message>>
    /\ UNCHANGED <<sh_class, use_pty, check, timeout, written, max_read_chunk,
                   elapsed>>
    /\ UNCHANGED <<rvars, ovars>>

NextShell ==
    \/ \E c \in BOOLEAN, t \in {NoTimeout} \cup (0..MaxTimeout),
          m \in 1..MaxChunk, p \in BOOLEAN, spawn \in BOOLEAN,
          e \in EnvSources : ShellCall(c, t, m, p, spawn, e)
    \/ \E c \in BOOLEAN, t \in {NoTimeout} \cup (0..MaxTimeout),
          automated \in BOOLEAN, rc \in ReturnCodes, e \in EnvSources :
          ShellCallInteractive(c, t, automated, rc, e)
    \/ \E c \in BOOLEAN, t \in {NoTimeout} \cup (0..MaxTimeout),
          p \in BOOLEAN, spawn \in BOOLEAN, e \in EnvSources :
          EnvShellCall(c, t, p, spawn, e)
    \/ ChildWrite
    \/ \E rc \in ReturnCodes : ChildExit(rc)
    \/ ClockTick
    \/ GateSelect
    \/ GatePoll
    \/ LoopSelect
    \/ LoopPoll
    \/ EnvStartWait
    \/ EnvLoop

\* One execute_shell_command call, no sequence running
InitShell == ShellIdle /\ RunnerIdle /\ OthersIdle

SpecShell == InitShell /\ [][NextShell]_vars

\* ---------------------------------------------------------------------------
\* Reading the history
\* ---------------------------------------------------------------------------
\* Outcomes with which an operation reports failure, and success
FailOutcomes == {"r1", "cfe", "exc"}
OkOutcomes == {"r0s", "r0n", "str"}

IsStep(i) == sequence_data.steps_kind = "list" /\ i \in 1..Len(steps)

\* Step i of the sequence was announced by run_sequence
Announced(i) ==
    \E n \in DOMAIN calls : calls[n].op = "set_pre" /\ calls[n].ctx = <<i, 0>>

\* The loop iteration of step i is over
Completed(i) ==
    /\ Announced(i)
    /\ pc \in {"loop", "returned", "raised"}

\* The tracker left the idle state when step i was announced
AnnouncedOk(i) ==
    \E n \in DOMAIN calls :
        calls[n].op = "set_pre" /\ calls[n].ctx = <<i, 0>> /\ calls[n].ok

\* Result tags emitted while step i (not its inline steps) was processed
TagsOf(i) ==
    {n \in DOMAIN calls :
        calls[n].op = "set_result" /\ calls[n].ctx = <<i, 0>> /\ calls[n].ok}

HasTag(ctx, text) ==
    \E n \in DOMAIN calls :
        /\ calls[n].op = "set_result" /\ calls[n].ctx = ctx
        /\ calls[n].text = text /\ calls[n].ok

\* The outcome with which the operation of ctx was dispatched
DispatchedWith(ctx, outcomes) ==
    \E n \in DOMAIN dispatched :
        dispatched[n].ctx = ctx /\ dispatched[n].outcome \in outcomes

IsOpStep(i) == IsStep(i) /\ ~steps[i].disabled /\ steps[i].method = "op"
IsConditional(i) == IsStep(i) /\ ~steps[i].disabled /\ steps[i].method = "conditional"

\* ---------------------------------------------------------------------------
\* Claims
\* ---------------------------------------------------------------------------

\* C1: every executed step leaves the idle state when announced, is back in
\* the idle state before the next step is announced, and gets exactly one
\* result tag, whatever its operation returned.
C1_OneTagPerStep ==
    /\ pc = "loop" => tracker_state = "PRE"
    /\ \A i \in 1..MaxSteps :
          (IsOpStep(i) /\ Completed(i)) =>
              (AnnouncedOk(i) /\ Cardinality(TagsOf(i)) = 1)

\* C2: an operation that returns a result with a non-zero return code without
\* raising makes its step a failed step: the run aborts there under
\* default/break, and the step gets WARNING under resume.
C2_NonZeroIsFailure ==
    \A i \in 1..MaxSteps :
        (IsOpStep(i) /\ DispatchedWith(<<i, 0>>, {"r1"})) =>
            IF from_label(steps[i].action_on_error) = "RESUME"
            THEN HasTag(<<i, 0>>, "WARNING") /\ warnings_count > 0
            ELSE pc = "raised" /\ idx = i

\* C3: after a step with policy default/break (or no or an unknown label) has
\* failed, no later step is dispatched and the run ends by raising.
C3_DefaultAborts ==
    \A i \in 1..MaxSteps :
        (/\ IsOpStep(i)
         /\ DispatchedWith(<<i, 0>>, FailOutcomes)
         /\ from_label(steps[i].action_on_error) \in {"DEFAULT", "BREAK"}) =>
            /\ pc = "raised"
            /\ error.type = "RuntimeError"
            /\ \A n \in DOMAIN dispatched : dispatched[n].ctx[1] <= i

\* C4: a failing step with policy resume gets the WARNING tag on its own line,
\* adds exactly one to the warnings counter, and the loop goes on to the next
\* step.
C4_ResumeWarns ==
    [][\A i \in 1..MaxSteps :
          (/\ IsOpStep(i)
           /\ from_label(steps[i].action_on_error) = "RESUME"
           /\ pc = "loop" /\ idx = i
           /\ Len(dispatched') = Len(dispatched) + 1
           /\ dispatched'[Len(dispatched')].outcome \in FailOutcomes) =>
              /\ warnings_count' = warnings_count + 1
              /\ tracker_state = "PRE"
              /\ \E n \in DOMAIN calls' :
                    /\ n > Len(calls)
                    /\ calls'[n] = Call("set_result", <<i, 0>>, "WARNING", TRUE)
              /\ pc' = "loop" /\ idx' = i + 1]_vars

\* C5: a value is stored by a step under its response_store_key exactly when
\* that step's own execution succeeded with a text response, and the value is
\* that step's own response.
C5_StoresOwnResponse ==
    /\ \A n \in DOMAIN stored :
          /\ stored[n].value = ResponseOf(stored[n].ctx)
          /\ DispatchedWith(stored[n].ctx, {"r0s", "str"})
    /\ \A i \in 1..MaxSteps :
          (/\ IsOpStep(i) /\ Completed(i)
           /\ steps[i].response_store_key # None
           /\ DispatchedWith(<<i, 0>>, {"r0s", "str"})) =>
              \E n \in DOMAIN stored : stored[n].ctx = <<i, 0>>

\* C6: a step dispatched after a step that stored its response under K sees,
\* when $K is expanded, the value that step stored.
C6_LaterStepSeesStored ==
    \A n \in DOMAIN stored : \A m \in DOMAIN dispatched :
        (/\ dispatched[m].ctx[1] > stored[n].ctx[1]
         /\ ~\E k \in DOMAIN stored :
               /\ stored[k].ctx[1] > stored[n].ctx[1]
               /\ stored[k].ctx[1] < dispatched[m].ctx[1]) =>
            dispatched[m].seen = stored[n].value

\* C7: a conditional step whose condition fails (non-zero result, CommandFailed
\* or any other exception) gets NO on its line and its if_false steps are run.
C7_FailedConditionRunsIfFalse ==
    \A i \in 1..MaxSteps :
        (/\ IsConditional(i)
         /\ steps[i].if_false > 0
         /\ DispatchedWith(<<i, 0>>, FailOutcomes)) =>
            /\ HasTag(<<i, 0>>, "NO")
            /\ \/ pc = "inline" /\ idx = i
               \/ \E n \in DOMAIN dispatched : dispatched[n].ctx = <<i, 1>>

C9_InvalidStepsRejected ==
    (/\ pc # "idle"
     /\ (sequence_data.steps_kind # "list" \/ Len(steps) = 0)) =>
        /\ pc = "raised"
        /\ dispatched = <<>>
        /\ error.type = "ValueError" \/ error.cause = "ValueError"

\* C10: a call with check set whose child exits with a non-zero return code
\* raises CommandFailed carrying a result with that return code, however the
\* exit was detected.
C10_CheckRaisesOnNonZero ==
    (/\ sh_pc \in {"returned", "raised"}
     /\ sh_class = "CorePlatform"
     /\ use_pty
     /\ check
     /\ process.state = "exited"
     /\ process.returncode # 0
     /\ sh_error # "TimeoutError") =>
        /\ sh_pc = "raised"
        /\ sh_error = "CommandFailedException"
        /\ sh_result.return_code = process.returncode

\* ---------------------------------------------------------------------------
\* Claims about execute_shell_command
\* ---------------------------------------------------------------------------
\* The call is over
ShellDone == sh_pc \in {"returned", "raised"}

\* The timeout of the call has expired
Expired == timeout > 0 /\ elapsed > timeout

\* C11: with a timeout T > 0, an iteration of a polling loop that starts with
\* the child still running after more than T has elapsed kills the child and
\* raises a timeout error, both while the child is silent (start-up loop) and
\* while its output keeps the descriptor readable (read loop).
C11_TimeoutEveryIteration ==
    [][(/\ sh_pc = "gate" \/ (sh_pc = "loop" /\ pending > 0)
        /\ Expired
        /\ process.state = "running"
        /\ (sh_pc' # sh_pc \/ received' # received))
       => (/\ sh_pc' = "raised"
           /\ sh_error' = "TimeoutError"
           /\ process'.state = "killed")]_vars

\* C12: when a silent child outlives the timeout of a PTY call, the error that
\* reaches the caller is CommandFailed, its result has a non-zero return code
\* and its message says "timed out after".
C12_TimeoutIsCommandFailed ==
    (/\ sh_class = "CorePlatform"
     /\ use_pty
     /\ sh_pc = "raised"
     /\ process.state # "exited"
     /\ process.state # "none"
     /\ written = 0
     /\ Expired) =>
        /\ sh_error = "CommandFailedException"
        /\ sh_result.return_code # 0
        /\ sh_message = "timed out after"

\* C13: once a call that uses a PTY is over, by return or by any exception
\* including a failure to spawn the child, the PTY master descriptor is closed.
C13_MasterClosedOnExit ==
    (ShellDone /\ use_pty /\ ~sh_args.interactive) => master_fd = "closed"

\* C14: a call whose child exits without producing output, and whose timeout
\* has not expired, ends by returning a result with a null response and the
\* child's exit code as return_code.
C14_EarlyExitReturns ==
    (/\ sh_class = "CorePlatform"
     /\ ~sh_args.interactive
     /\ ShellDone
     /\ process.state = "exited"
     /\ written = 0
     /\ ~Expired) =>
        /\ sh_pc = "returned"
        /\ sh_result.response = None
        /\ sh_result.return_code = process.returncode

\* ---------------------------------------------------------------------------
\* ProgressTracker on its own: any caller, any order of calls
\* ---------------------------------------------------------------------------
\* What one call leaves behind: the method, whether it returned True, and the
\* number of calls made so far
Returned(op, ok) == [op |-> op, ok |-> ok, n |-> ret_val.n + 1]

\* One write to sys.stdout and the time it was made
Written(kind) == [kind |-> kind, at |-> now]

\* A tracker fresh from its constructor: state PRE, _last_update_time 0, and
\* a clock that has long passed any update interval
InitTracker ==
    /\ ShellIdle
    /\ RunnerIdle
    /\ EraseIdle /\ UrlIdle /\ MainIdle /\ ExpandIdle /\ FurtherIdle
    /\ terminal = <<>>
    /\ last_update_time = 0
    /\ now = MaxInterval
    /\ min_update_interval_ms \in 0..MaxInterval
    /\ ret_val = [op |-> None, ok |-> FALSE, n |-> 0]

\* The variables no tracker call touches
TrackerFrame ==
    /\ UNCHANGED <<sequence_data, pc, idx, sub, step_number, warnings_count,
                   last_step_results, tracker, dynamic_vars_storage, variables,
                   calls, dispatched, stored, error>>
    /\ UNCHANGED <<shvars, evars, uvars, mvars, xvars, zvars>>
    /\ UNCHANGED <<now, min_update_interval_ms>>

\* set_pre(text): fits says whether the formatted text is narrower than the
\* terminal
TrackerSetPre(fits) ==
    /\ ret_val.n < MaxCalls
    /\ LET p == set_pre(tracker_state)
           ok == p.ok /\ fits
       IN /\ ret_val' = Returned("set_pre", ok)
          /\ tracker_state' = IF ok THEN p.state ELSE tracker_state
          /\ terminal' = IF ok THEN Append(terminal, Written("pre")) ELSE terminal
    /\ UNCHANGED last_update_time
    /\ TrackerFrame

TrackerSetBodyUnthrottled ==
    /\ ret_val.n < MaxCalls
    /\ IF tracker_state # "BODY"
       THEN /\ ret_val' = Returned("set_body_in_place", FALSE)
            /\ UNCHANGED <<terminal, last_update_time>>
       ELSE /\ ret_val' = Returned("set_body_in_place", TRUE)
            /\ terminal' = Append(terminal, Written("body"))
            /\ last_update_time' = now
    /\ UNCHANGED tracker_state
    /\ TrackerFrame

\* set_body_in_place(text)
TrackerSetBody ==
    /\ ret_val.n < MaxCalls
    /\ IF tracker_state # "BODY"
       THEN /\ ret_val' = Returned("set_body_in_place", FALSE)
            /\ UNCHANGED <<terminal, last_update_time>>
       ELSE IF now - last_update_time < min_update_interval_ms
       THEN /\ ret_val' = Returned("set_body_in_place", FALSE)
            /\ UNCHANGED <<terminal, last_update_time>>
       ELSE /\ ret_val' = Returned("set_body_in_place", TRUE)
            /\ terminal' = Append(terminal, Written("body"))
            /\ last_update_time' = now
    /\ UNCHANGED tracker_state
    /\ TrackerFrame

TrackerSetResultUnguarded ==
    /\ ret_val.n < MaxCalls
    /\ ret_val' = Returned("set_result", TRUE)
    /\ tracker_state' = "PRE"
    /\ terminal' = Append(terminal, Written("result"))
    /\ UNCHANGED last_update_time
    /\ TrackerFrame

\* set_result(text, status_code)
TrackerSetResult ==
    /\ ret_val.n < MaxCalls
    /\ LET r == set_result(tracker_state)
       IN /\ ret_val' = Returned("set_result", r.ok)
          /\ tracker_state' = r.state
          /\ terminal' = IF r.ok THEN Append(terminal, Written("result")) ELSE terminal
    /\ UNCHANGED last_update_time
    /\ TrackerFrame

\* set_complete_line(pre_text, result_text): set_pre, then set_result if
\* set_pre returned True
TrackerSetCompleteLine(fits) ==
    /\ ret_val.n < MaxCalls
    /\ LET p == set_pre(tracker_state)
           r == set_result(p.state)
       IN IF p.ok /\ fits
          THEN /\ ret_val' = Returned("set_complete_line", r.ok)
               /\ tracker_state' = r.state
               /\ terminal' = terminal \o <<Written("pre"), Written("result")>>
          ELSE /\ ret_val' = Returned("set_complete_line", FALSE)
               /\ UNCHANGED <<tracker_state, terminal>>
    /\ UNCHANGED last_update_time
    /\ TrackerFrame

\* set_end(): a newline is written, the cursor is shown; it returns nothing
TrackerSetEnd ==
    /\ ret_val.n < MaxCalls
    /\ ret_val' = Returned("set_end", FALSE)
    /\ terminal' = Append(terminal, Written("end"))
    /\ UNCHANGED <<tracker_state, last_update_time>>
    /\ TrackerFrame

\* Time passes between two calls
TimePasses ==
    /\ now < MaxInterval + MaxClock
    /\ now' = now + 1
    /\ UNCHANGED <<rvars, shvars, evars, uvars, mvars, xvars, zvars>>
    /\ UNCHANGED <<terminal, last_update_time, min_update_interval_ms, ret_val>>

NextTracker ==
    \/ \E fits \in BOOLEAN : TrackerSetPre(fits)
    \/ TrackerSetBody
    \/ TrackerSetResult
    \/ \E fits \in BOOLEAN : TrackerSetCompleteLine(fits)
    \/ TrackerSetEnd
    \/ TimePasses

SpecTracker == InitTracker /\ [][NextTracker]_vars

\* The step is a call of method op
TrackerCalled(op) == ret_val'.n # ret_val.n /\ ret_val'.op = op

\* The time of the last body update written so far, Unset if there is none
LastBodyWritten ==
    LET at == {i \in 1..Len(terminal) : terminal[i].kind = "body"}
    IN IF at = {} THEN Unset
       ELSE terminal[CHOOSE i \in at : \A j \in at : j <= i].at

\* C15: set_pre while a line is open, and set_body_in_place or set_result
\* while none is open, return False and leave the tracker state and the
\* terminal as they were; the state changes only from PRE to BODY in a set_pre
\* that returns True and from BODY to PRE in a set_result that returns True.
C15_OutOfOrderIsNoOp ==
    [][/\ (TrackerCalled("set_pre") /\ tracker_state = "BODY")
           => (~ret_val'.ok /\ UNCHANGED <<tracker_state, terminal>>)
       /\ ((TrackerCalled("set_body_in_place") \/ TrackerCalled("set_result"))
              /\ tracker_state = "PRE")
           => (~ret_val'.ok /\ UNCHANGED <<tracker_state, terminal>>)
       /\ (tracker_state' # tracker_state)
           => \/ /\ TrackerCalled("set_pre") /\ ret_val'.ok
                 /\ tracker_state = "PRE" /\ tracker_state' = "BODY"
              \/ /\ TrackerCalled("set_result") /\ ret_val'.ok
                 /\ tracker_state = "BODY" /\ tracker_state' = "PRE"]_vars

\* A set_result call made while no line was open, after a line was written
C15_Witness ==
    /\ ret_val.op = "set_result"
    /\ ~ret_val.ok
    /\ tracker_state = "PRE"
    /\ Len(terminal) = 2

\* C16: a body update made while a line is open is dropped (False, nothing
\* written, state and last-update time unchanged) when the last body update
\* written is less than min_update_interval_ms old, and is written otherwise.
C16_BodyUpdateThrottled ==
    [][(TrackerCalled("set_body_in_place") /\ tracker_state = "BODY")
       => IF LastBodyWritten # Unset
             /\ now - LastBodyWritten < min_update_interval_ms
          THEN /\ ~ret_val'.ok
               /\ UNCHANGED <<terminal, tracker_state, last_update_time>>
          ELSE /\ ret_val'.ok
               /\ terminal' = Append(terminal, Written("body"))
               /\ tracker_state' = "BODY"]_vars

\* A body update dropped because the one before it was too recent
C16_Witness ==
    /\ ret_val.op = "set_body_in_place"
    /\ ~ret_val.ok
    /\ tracker_state = "BODY"
    /\ LastBodyWritten # Unset
    /\ now - LastBodyWritten < min_update_interval_ms

\* ---------------------------------------------------------------------------
\* path_erase (CorePlatform and CoreEnvironment)
\* ---------------------------------------------------------------------------
NoDir == <<None>>   \* the path names no existing directory

\* os.path.expanduser: a leading "~" piece becomes the home directory
ExpandUser(path) ==
    IF path[1] = "~" THEN <<"">> \o Home \o Tail(path) ELSE path

\* os.path.expandvars: every $HOME piece becomes the text "/home/u"
RECURSIVE ExpandVars(_)
ExpandVars(path) ==
    IF path = <<>> THEN <<>>
    ELSE (IF Head(path) = "$HOME" THEN <<"">> \o Home ELSE <<Head(path)>>)
         \o ExpandVars(Tail(path))

\* environment_variable_expand without to_absolute_path: expanduser, then
\* expandvars (no $(...) and no undefined variable among the pieces)
ExpandText(path) == ExpandVars(ExpandUser(path))

\* Variable Store expand(key): substitutes $NAME and ~ and nothing else
ExpandKey(path) == ExpandVars(ExpandUser(path))

\* The number of "/" the string starts with
RECURSIVE LeadingEmpty(_)
LeadingEmpty(path) ==
    IF path = <<>> \/ Head(path) # "" THEN 0 ELSE 1 + LeadingEmpty(Tail(path))

LeadingSlashes(path) ==
    IF LeadingEmpty(path) = Len(path) THEN Len(path) - 1 ELSE LeadingEmpty(path)

\* posixpath.normpath, the loop over the pieces: comps is new_comps so far
RECURSIVE NormComps(_, _, _)
NormComps(path, comps, rooted) ==
    IF path = <<>> THEN comps
    ELSE LET comp == Head(path) IN
         IF comp \in {"", "."} THEN NormComps(Tail(path), comps, rooted)
         ELSE IF \/ comp # ".."
                 \/ (~rooted /\ comps = <<>>)
                 \/ (comps # <<>> /\ comps[Len(comps)] = "..")
              THEN NormComps(Tail(path), Append(comps, comp), rooted)
         ELSE IF comps # <<>>
              THEN NormComps(Tail(path), SubSeq(comps, 1, Len(comps) - 1), rooted)
         ELSE NormComps(Tail(path), comps, rooted)

\* posixpath.normpath: exactly two leading slashes are kept, three or more
\* become one
normpath(path) ==
    LET n == LeadingSlashes(path)
        slashes == IF n = 2 THEN 2 ELSE IF n > 2 THEN 1 ELSE n
    IN [slashes |-> slashes, comps |-> NormComps(path, <<>>, slashes > 0)]

\* posixpath.abspath of a normalized path: join the working directory in
\* front of a relative path and normalize again
abspath(norm) ==
    IF norm.slashes > 0 THEN norm
    ELSE [slashes |-> 1, comps |-> NormComps(Cwd \o norm.comps, <<>>, TRUE)]

\* The string of a normalized path, in pieces
Pieced(norm) ==
    [i \in 1..norm.slashes |-> ""] \o
    (IF norm.comps = <<>> /\ norm.slashes > 0 THEN <<"">> ELSE norm.comps)

\* The kernel's walk along a path: the directory it ends in, or NoDir
RECURSIVE Walk(_, _, _)
Walk(path, dir, dirs) ==
    IF dir \notin dirs THEN NoDir
    ELSE IF path = <<>> THEN dir
    ELSE LET comp == Head(path) IN
         IF comp \in {"", "."} THEN Walk(Tail(path), dir, dirs)
         ELSE IF comp = ".."
              THEN Walk(Tail(path),
                        IF dir = Root THEN Root ELSE SubSeq(dir, 1, Len(dir) - 1),
                        dirs)
         ELSE Walk(Tail(path), Append(dir, comp), dirs)

\* The directory a path string names to the operating system: os.path.exists,
\* os.listdir and shutil.rmtree expand neither "~" nor "$HOME"
Resolve(path, dirs) ==
    IF path = <<"">> THEN NoDir
    ELSE Walk(path, IF LeadingSlashes(path) > 0 THEN Root ELSE Cwd, dirs)

IsPrefix(a, b) == Len(a) <= Len(b) /\ SubSeq(b, 1, Len(a)) = a

\* The last piece of the path that is not empty, "" if there is none
RECURSIVE LastPiece(_)
LastPiece(path) ==
    IF path = <<>> THEN ""
    ELSE IF path[Len(path)] # "" THEN path[Len(path)]
    ELSE LastPiece(SubSeq(path, 1, Len(path) - 1))

\* shutil.rmtree(path): everything below the directory goes; the directory
\* itself goes too unless the path ends in "." or ".." or names the root, for
\* which the final rmdir fails
rmtree(path, dirs) ==
    LET dir == Resolve(path, dirs)
        kept == LastPiece(path) \in {"", ".", ".."}
    IN [dirs |-> {d \in dirs : ~IsPrefix(dir, d) \/ (kept /\ d = dir)},
        error |-> IF kept THEN "OSError" ELSE None]

\* What path_erase compares and tests for existence: expanded_path, the
\* Variable Store's expansion, in CorePlatform; normalized_path, the expansion
\* made absolute, in CoreEnvironment
ErasePath(cls, path) ==
    IF cls = "CorePlatform" THEN ExpandKey(path)
    ELSE IF path = <<"">> THEN <<"">>
    ELSE Pieced(abspath(normpath(ExpandText(path))))

\* The home directory, Documents and Desktop as os.path.abspath gives them
important_paths ==
    {<<"">> \o Home, <<"">> \o Home \o <<"Documents">>,
     <<"">> \o Home \o <<"Desktop">>}

\* path_erase: the exception raised (None for a return) and the directories
\* left
path_erase(cls, path, allow_non_empty, raise_if_missing, dirs) ==
    LET expanded_path == ErasePath(cls, path)
        dir == Resolve(path, dirs)
    IN IF Resolve(expanded_path, dirs) = NoDir
       THEN [error |-> IF raise_if_missing THEN "FileNotFoundError" ELSE None,
             dirs |-> dirs]
       ELSE IF Len(path) - 1 < 2
       THEN [error |-> "RuntimeError", dirs |-> dirs]
       ELSE IF expanded_path \in important_paths
       THEN [error |-> "RuntimeError", dirs |-> dirs]
       ELSE IF ~allow_non_empty /\ dir = NoDir
       THEN [error |-> "FileNotFoundError", dirs |-> dirs]
       ELSE IF ~allow_non_empty /\ \E d \in dirs : d # dir /\ IsPrefix(dir, d)
       THEN [error |-> "IsADirectoryError", dirs |-> dirs]
       ELSE IF dir # NoDir
       THEN rmtree(path, dirs)
       ELSE [error |-> None, dirs |-> dirs]

\* The directories path_erase never removes
Protected == {Home, Home \o <<"Documents">>, Home \o <<"Desktop">>}

\* A step asks for path to be erased; target is the directory the path,
\* with "~" and $HOME expanded, names at that moment
PathEraseCall(path) ==
    /\ erase_pc = "idle"
    /\ erase_pc' = "called"
    /\ erase_call' = [cls |-> None, path |-> path, allow_non_empty |-> FALSE,
                      target |-> Resolve(ExpandText(path), fs)]
    /\ erase_error' = None
    /\ UNCHANGED fs
    /\ UNCHANGED <<rvars, shvars, tvars, uvars, mvars, xvars, zvars>>

\* path_erase runs, in either class
PathEraseRun(cls, allow_non_empty, raise_if_missing) ==
    /\ erase_pc = "called"
    /\ LET r == path_erase(cls, erase_call.path, allow_non_empty,
                          raise_if_missing, fs)
       IN /\ fs' = r.dirs
          /\ erase_error' = r.error
    /\ erase_call' = [erase_call EXCEPT !.cls = cls,
                                        !.allow_non_empty = allow_non_empty]
    /\ erase_pc' = "done"
    /\ UNCHANGED <<rvars, shvars, tvars, uvars, mvars, xvars, zvars>>

\* The caller has the outcome and goes on to its next step
PathEraseReturn ==
    /\ erase_pc = "done"
    /\ erase_pc' = "idle"
    /\ erase_call' = [cls |-> None, path |-> <<>>, allow_non_empty |-> FALSE,
                      target |-> NoDir]
    /\ erase_error' = None
    /\ UNCHANGED fs
    /\ UNCHANGED <<rvars, shvars, tvars, uvars, mvars, xvars, zvars>>

NextErase ==
    \/ erase_pc = "idle" /\ \E path \in Paths : PathEraseCall(path)
    \/ PathEraseReturn
    \/ \E cls \in {"CorePlatform", "CoreEnvironment"},
          allow_non_empty \in BOOLEAN, raise_if_missing \in BOOLEAN :
          PathEraseRun(cls, allow_non_empty, raise_if_missing)

InitErase ==
    /\ ShellIdle
    /\ RunnerIdle
    /\ TrackerIdle /\ EraseIdle /\ UrlIdle /\ MainIdle /\ ExpandIdle
    /\ FurtherIdle

SpecErase == InitErase /\ [][NextErase]_vars

\* C17: a path_erase call whose target is the home directory, its Documents
\* or its Desktop, or whose path has fewer than two separators and exists,
\* raises and removes nothing, however the path is written; and no protected
\* directory is ever removed.
C17_ProtectedNeverErased ==
    /\ (erase_pc = "done" /\ erase_call.target \in Protected)
          => (erase_error # None /\ erase_call.target \in fs)
    /\ (erase_pc = "done" /\ Len(erase_call.path) - 1 < 2
          /\ erase_call.target # NoDir)
          => (erase_error # None /\ erase_call.target \in fs)
    /\ Protected \subseteq fs

\* ---------------------------------------------------------------------------
\* url_get of a file URL (CorePlatform.url_get)
\* ---------------------------------------------------------------------------
\* Sizes are counted in units of 5 KB.  body is what the server delivers
\* before the transfer ends; the response object never hands out more than
\* Content-Length bytes.
chunk_size == 2    \* 1024 * 10 bytes

\* The call ends with a CommandResultType
ReturnUrl(return_code, extra_value) ==
    /\ url_pc' = "returned"
    /\ url_result' = [return_code |-> return_code, extra_value |-> extra_value]

\* The call ends with RuntimeError("download error ...")
RaiseUrl ==
    /\ url_pc' = "raised"
    /\ url_result' = Unset

\* url_get up to the first read: existing is the size of the destination file
\* (Unset: there is none); length is the Content-Length header (Unset: not
\* sent); sent is what the server delivers; reset tells whether the
\* connection breaks with an error rather than an end of stream
UrlGetCall(existing, delete_if_exist, length, sent, reset) ==
    /\ url_pc = "idle"
    /\ content_length' = length
    /\ body' = sent
    /\ downloaded_size' = 0
    /\ IF existing # Unset /\ ~delete_if_exist
       THEN /\ out_file' = existing
            /\ RaiseUrl
       ELSE IF length = Unset
       THEN IF reset
            THEN /\ out_file' = Unset
                 /\ RaiseUrl
            ELSE /\ out_file' = sent
                 /\ ReturnUrl(0, sent)
       ELSE /\ out_file' = 0
            /\ url_pc' = "reading"
            /\ url_result' = Unset
    /\ UNCHANGED <<rvars, shvars, tvars, evars, mvars, xvars, zvars>>

\* What response.read(chunk_size) returns
Chunk ==
    LET left == content_length - downloaded_size
        there == body - downloaded_size
        least == IF left < there THEN left ELSE there
    IN IF least < 0 THEN 0 ELSE IF least < chunk_size THEN least ELSE chunk_size

\* One turn of the download loop, and what follows the loop when the chunk
\* is empty.  A transfer that stops short ends the stream or, if reset, raises
UrlRead(reset) ==
    /\ url_pc = "reading"
    /\ IF Chunk > 0
       THEN /\ out_file' = out_file + Chunk
            /\ downloaded_size' = downloaded_size + Chunk
            /\ UNCHANGED <<url_pc, url_result>>
       ELSE IF reset /\ downloaded_size < content_length
       THEN /\ RaiseUrl
            /\ UNCHANGED <<out_file, downloaded_size>>
       ELSE /\ IF content_length > 0
               THEN ReturnUrl(0, downloaded_size)
               ELSE ReturnUrl(1, downloaded_size)
            /\ UNCHANGED <<out_file, downloaded_size>>
    /\ UNCHANGED <<content_length, body>>
    /\ UNCHANGED <<rvars, shvars, tvars, evars, mvars, xvars, zvars>>

\* The caller has the outcome; the next download starts afresh
UrlGetDone ==
    /\ url_pc \in {"returned", "raised"}
    /\ url_pc' = "idle"
    /\ content_length' = Unset
    /\ body' = 0
    /\ downloaded_size' = 0
    /\ out_file' = Unset
    /\ url_result' = Unset
    /\ UNCHANGED <<rvars, shvars, tvars, evars, mvars, xvars, zvars>>

NextUrl ==
    \/ \E existing \in {Unset, 1}, delete_if_exist \in BOOLEAN,
          length \in {Unset} \cup 0..MaxLength, sent \in 0..MaxLength,
          reset \in BOOLEAN :
          UrlGetCall(existing, delete_if_exist, length, sent, reset)
    \/ \E reset \in BOOLEAN : UrlRead(reset)
    \/ UrlGetDone

InitUrl ==
    /\ ShellIdle
    /\ RunnerIdle
    /\ TrackerIdle /\ EraseIdle /\ UrlIdle /\ MainIdle /\ ExpandIdle
    /\ FurtherIdle

SpecUrl == InitUrl /\ [][NextUrl]_vars

\* C18: a url_get call whose response carries Content-Length N and that
\* reports success (return_code 0) has written exactly N bytes to the
\* destination file.
C18_SuccessHasContentLength ==
    (url_pc = "returned" /\ content_length # Unset /\ url_result.return_code = 0)
        => out_file = content_length

\* ---------------------------------------------------------------------------
\* The console entry point (auto_forge_main, AutoForge.forge)
\* ---------------------------------------------------------------------------
\* An option stands for the option with its value.
Options == {"-v", "-w", "-p", "--no-create-workspace"}
CommandLines == UNION {[1..n -> Options] : n \in 0..MaxArgs}

Given(option) == \E i \in 1..Len(argv) : argv[i] = option

\* sys.exit(status), or the return of auto_forge_main handed to the launcher
Exit(status, cause) ==
    /\ main_pc' = "exited"
    /\ exit_code' = status
    /\ ended_by' = cause

\* 'result' of auto_forge_main, which is never assigned after the first line
result == 1

\* What CorePrompt.cmdloop() returns when the user quits the shell
cmdloop == 0

\* auto_forge_main up to parser.parse_args(): the version flag alone exits
\* with 0; the parser exits with 2 on a missing or unknown option
MainParse(args) ==
    /\ main_pc = "idle"
    /\ argv' = args
    /\ IF Len(args) = 1 /\ args[1] = "-v"
       THEN Exit(0, "version")
       ELSE IF \/ \E i \in 1..Len(args) : args[i] = "-v"
               \/ \A i \in 1..Len(args) : args[i] # "-w"
               \/ \A i \in 1..Len(args) : args[i] # "-p"
       THEN Exit(2, "usage")
       ELSE /\ main_pc' = "parsed"
            /\ UNCHANGED <<exit_code, ended_by>>
    /\ UNCHANGED <<rvars, shvars, tvars, evars, uvars, xvars, zvars>>

\* AutoForge(**vars(args)): the constructor validates its arguments and
\* raises on a bad one
MainConstruct(valid) ==
    /\ main_pc = "parsed"
    /\ IF valid
       THEN /\ main_pc' = "forging"
            /\ UNCHANGED <<exit_code, ended_by>>
       ELSE Exit(result, "error")
    /\ UNCHANGED argv
    /\ UNCHANGED <<rvars, shvars, tvars, evars, uvars, xvars, zvars>>

\* forge(): the solution loads or raises; then the interactive shell starts
\* or, when workspaces are created, follow_steps returns 0 or raises
MainForge(loads, steps_fail) ==
    /\ main_pc = "forging"
    /\ IF ~loads
       THEN Exit(result, "error")
       ELSE IF Given("--no-create-workspace")
       THEN /\ main_pc' = "prompt"
            /\ UNCHANGED <<exit_code, ended_by>>
       ELSE IF steps_fail
       THEN Exit(result, "error")
       ELSE Exit(0, "success")
    /\ UNCHANGED argv
    /\ UNCHANGED <<rvars, shvars, tvars, evars, uvars, xvars, zvars>>

\* The user leaves the interactive shell, or the shell raises
MainPrompt(raises) ==
    /\ main_pc = "prompt"
    /\ IF raises THEN Exit(result, "error") ELSE Exit(cmdloop, "success")
    /\ UNCHANGED argv
    /\ UNCHANGED <<rvars, shvars, tvars, evars, uvars, xvars, zvars>>

\* KeyboardInterrupt while the run is under way: nothing below
\* auto_forge_main catches it, its handler prints and falls to 'return result'
MainInterrupt ==
    /\ main_pc \in {"parsed", "forging", "prompt"}
    /\ Exit(result, "interrupt")
    /\ UNCHANGED argv
    /\ UNCHANGED <<rvars, shvars, tvars, evars, uvars, xvars, zvars>>

NextMain ==
    \/ \E args \in CommandLines : MainParse(args)
    \/ \E valid \in BOOLEAN : MainConstruct(valid)
    \/ \E loads \in BOOLEAN, steps_fail \in BOOLEAN : MainForge(loads, steps_fail)
    \/ \E raises \in BOOLEAN : MainPrompt(raises)
    \/ MainInterrupt

InitMain ==
    /\ ShellIdle
    /\ RunnerIdle
    /\ TrackerIdle /\ EraseIdle /\ UrlIdle /\ MainIdle /\ ExpandIdle
    /\ FurtherIdle

SpecMain == InitMain /\ [][NextMain]_vars

\* C19: the exit code of auto_forge_main is 0 when the run succeeds, 1 when a
\* runtime error occurs and 130 when a keyboard interrupt ends the run.
C19_ExitCodes ==
    main_pc = "exited" =>
        /\ ended_by = "success" => exit_code = 0
        /\ ended_by = "error" => exit_code = 1
        /\ ended_by = "interrupt" => exit_code = 130

\* ---------------------------------------------------------------------------
\* environment_variable_expand (the same code in CorePlatform and
\* CoreEnvironment)
\* ---------------------------------------------------------------------------
\* A text is the sequence of its characters.  The environment defines V,
\* whose value is plain text, and T, whose value is a tilde;
\* to_absolute_path is left at its default, False.
Alphabet == {"$", "(", ")", "{", "}", "V", "T", "x", "~"}
Texts == UNION {[1..n -> Alphabet] : n \in 0..MaxText}
WordChars == {"V", "T", "x"}               \* what \w matches
environ ==
    [name \in {<<"V">>, <<"T">>} |-> IF name = <<"V">> THEN <<"x">> ELSE <<"~">>]
HomeText == <<"/", "x">>

\* The first position from i on that holds c, 0 if there is none
FirstAt(t, c, i) ==
    IF \E k \in i..Len(t) : t[k] = c
    THEN CHOOSE k \in i..Len(t) : t[k] = c /\ \A j \in i..(k - 1) : t[j] # c
    ELSE 0

\* The last position of the run of word characters that starts at i
WordEnd(t, i) ==
    CHOOSE k \in i..Len(t) :
        /\ \A j \in i..k : t[j] \in WordChars
        /\ k = Len(t) \/ t[k + 1] \notin WordChars

\* os.path.expanduser: "~" alone is the home directory; "~name" names a user,
\* and there is no user of such a name
expanduser(t) == IF t = <<"~">> THEN HomeText ELSE t

\* Where a match of \$\([^)]*\) that starts at the head of t ends, 0: no match
SubstitutionEnd(t) ==
    IF Len(t) >= 2 /\ t[1] = "$" /\ t[2] = "(" THEN FirstAt(t, ")", 3) ELSE 0

\* command_substitution_pattern.sub over t: every match is replaced by itself
\* (keep, the callback _ignore_command_substitution) or by '' (~keep)
RECURSIVE pattern_sub(_, _)
pattern_sub(t, keep) ==
    IF t = <<>> THEN <<>>
    ELSE LET j == SubstitutionEnd(t) IN
         IF j = 0 THEN <<t[1]>> \o pattern_sub(Tail(t), keep)
         ELSE (IF keep THEN SubSeq(t, 1, j) ELSE <<>>)
              \o pattern_sub(SubSeq(t, j + 1, Len(t)), keep)

\* os.path.expandvars: from left to right every $name and ${name} of a
\* defined name becomes its value; the rest stays
RECURSIVE expandvars(_)
expandvars(path) ==
    IF path = <<>> THEN <<>>
    ELSE LET n == Len(path)
             j == IF path[1] # "$" \/ n < 2 THEN 0
                  ELSE IF path[2] \in WordChars THEN WordEnd(path, 2)
                  ELSE IF path[2] = "{" THEN FirstAt(path, "}", 3)
                  ELSE 0
         IN IF j = 0 THEN <<path[1]>> \o expandvars(Tail(path))
            ELSE LET name == IF path[2] = "{" THEN SubSeq(path, 3, j - 1)
                                              ELSE SubSeq(path, 2, j)
                 IN (IF name \in DOMAIN environ THEN environ[name]
                                                ELSE SubSeq(path, 1, j))
                    \o expandvars(SubSeq(path, j + 1, n))

Chars(t) == {t[i] : i \in 1..Len(t)}

\* environment_variable_expand(text): raised tells whether ValueError leaves
\* the call, value is what it returns otherwise
environment_variable_expand(text) ==
    IF text = <<>> THEN [raised |-> FALSE, value |-> <<>>]
    ELSE LET path_with_user == expanduser(text)
             temp_replacement == pattern_sub(path_with_user, TRUE)
             expanded_path == expandvars(temp_replacement)
             restored == pattern_sub(expanded_path, TRUE)
         IN IF "$" \in Chars(pattern_sub(restored, FALSE))
            THEN [raised |-> TRUE, value |-> <<>>]
            ELSE [raised |-> FALSE, value |-> restored]

\* The call made with expand_text runs to its end
EnvironmentVariableExpand ==
    /\ expand_pc = "called"
    /\ LET r == environment_variable_expand(expand_text)
       IN /\ expand_pc' = IF r.raised THEN "raised" ELSE "returned"
          /\ restored_path' = r.value
    /\ UNCHANGED <<expand_text, second_path>>
    /\ UNCHANGED <<rvars, shvars, tvars, evars, uvars, mvars, zvars>>

\* The text returned is handed to environment_variable_expand again
EnvironmentVariableExpandAgain ==
    /\ expand_pc = "returned"
    /\ LET r == environment_variable_expand(restored_path)
       IN /\ expand_pc' = IF r.raised THEN "raised_again" ELSE "returned_again"
          /\ second_path' = r.value
    /\ UNCHANGED <<expand_text, restored_path>>
    /\ UNCHANGED <<rvars, shvars, tvars, evars, uvars, mvars, zvars>>

NextExpand ==
    \/ EnvironmentVariableExpand
    \/ EnvironmentVariableExpandAgain

InitExpand ==
    /\ ShellIdle
    /\ RunnerIdle
    /\ TrackerIdle /\ EraseIdle /\ UrlIdle /\ MainIdle /\ FurtherIdle
    /\ expand_pc = "called"
    /\ expand_text \in Texts
    /\ restored_path = <<>>
    /\ second_path = <<>>

SpecExpand == InitExpand /\ [][NextExpand]_vars

\* The $(...) substrings of t
Substitutions(t) ==
    {SubSeq(t, i, i + SubstitutionEnd(SubSeq(t, i, Len(t))) - 1) :
        i \in {k \in 1..Len(t) : SubstitutionEnd(SubSeq(t, k, Len(t))) > 0}}

Contains(t, s) == \E i \in 1..(Len(t) - Len(s) + 1) : SubSeq(t, i, i + Len(s) - 1) = s

\* C20: the text environment_variable_expand returns contains every $(...)
\* substring of its argument unchanged, also when the substring holds $NAME
\* or ${NAME} of a defined variable.
C20_SubstitutionPreserved ==
    expand_pc = "returned" =>
        \A s \in Substitutions(expand_text) : Contains(restored_path, s)

\* C21: expanding the text a successful expansion returned changes nothing:
\* the second call does not raise and returns its argument.
C21_ExpandIdempotent ==
    /\ expand_pc # "raised_again"
    /\ expand_pc = "returned_again" => second_path = restored_path

\* ---------------------------------------------------------------------------
\* What a dispatched operation yields to run_sequence
\* ---------------------------------------------------------------------------
\* The operation run_sequence dispatched last
LastDispatched == dispatched[Len(dispatched)]

\* The operation itself returned: it raised nothing
Completes(outcome) == outcome \in {"r0s", "r0n", "r1", "str", "none"}

\* C22: an operation step whose operation completes without raising yields
\* a CommandResult to run_sequence, whatever the operation's own return
\* value is.
C22_OperationYieldsResult ==
    (/\ dispatched # <<>>
     /\ LastDispatched.ctx[2] = 0
     /\ steps[LastDispatched.ctx[1]].method = "op"
     /\ Completes(LastDispatched.outcome))
        => last_step_results.kind = "result"

\* ---------------------------------------------------------------------------
\* validate_prerequisite (CorePlatform and CoreEnvironment)
\* ---------------------------------------------------------------------------
\* A version is the sequence of its numeric components, "3.16.1" is
\* <<3, 16, 1>>.  An output or a file line is one word.
Components == {0, 1, 9, 16}
Versions == UNION {[1..n -> Components] : n \in 1..MaxComps}
Words == {"tok", "TOK", "other"}

\* str.lower()
Lower(word) == IF word = "TOK" THEN "tok" ELSE word

\* What execute_shell_command does for the probe: it raises, or it returns
\* with no output, or it returns the output
ShellOutcomes == {"raise", "none", "text"}

\* Component i of a version, missing trailing components being zero
Component(v, i) == IF i <= Len(v) THEN v[i] ELSE 0

\* VersionCompare().compare(detected, ">=required"): component-wise numeric
\* comparison
compare(detected, required) ==
    \/ \A i \in 1..MaxComps + 1 : Component(detected, i) = Component(required, i)
    \/ \E i \in 1..MaxComps + 1 :
          /\ Component(detected, i) > Component(required, i)
          /\ \A j \in 1..(i - 1) : Component(detected, j) = Component(required, j)

\* _extract_decimal of a version text: the pattern [-+]?\d*\.\d+|\d+ takes
\* the first two components as a decimal fraction "a.b"; the value is given
\* here in hundredths
extract_decimal(v) ==
    IF Len(v) = 1 THEN v[1] * 100
    ELSE v[1] * 100 + (IF v[2] < 10 THEN v[2] * 10 ELSE v[2])

\* The probes: what the caller asks for and what the system holds
\*   token    command output against expected_response
\*   version  command output against a 'greater or equal' version
\*   plain    command run with nothing expected of its output
\*   file     lines of a file against expected_response
\*   package  the package manager's listing
TokenProbes ==
    [kind : {"token"}, shell : ShellOutcomes, output : Words]
VersionProbes ==
    [kind : {"version"}, shell : ShellOutcomes, detected : Versions,
     required : Versions]
PlainProbes ==
    [kind : {"plain"}, shell : ShellOutcomes]
FileProbes ==
    [kind : {"file"},
     lines : UNION {[1..n -> Words] : n \in 0..MaxLines},
     line_number : 0..MaxLines + 1, line_count : 1..MaxLines,
     expected_response : {None, "tok"}]
PackageProbes ==
    [kind : {"package"}, package_manager : {None, "apt", "dnf"},
     shell : ShellOutcomes, listed : BOOLEAN]
Probes ==
    TokenProbes \cup VersionProbes \cup PlainProbes \cup FileProbes
        \cup PackageProbes

\* lines[start:end] of the file probe
SelectedLines(probe) ==
    LET start == IF probe.line_number - 1 > 0 THEN probe.line_number - 1 ELSE 0
        end == start + probe.line_count
    IN {probe.lines[i] : i \in {k \in 1..Len(probe.lines) : start < k /\ k <= end}}

Raised(exc) == [raised |-> TRUE, value |-> exc]
Returns(value) == [raised |-> FALSE, value |-> value]

\* CorePlatform._validate_sys_package
PlatformValidateSysPackage(probe) ==
    IF probe.package_manager = None THEN Raised("OSError")
    ELSE IF probe.shell = "raise" THEN Raised("RuntimeError")
    ELSE IF probe.shell = "none" \/ ~probe.listed THEN Raised("OSError")
    ELSE Returns("result")

\* CorePlatform.validate_prerequisite on the resolved arguments
PlatformValidate(probe) ==
    IF probe.kind \in {"token", "version", "plain"}
    THEN IF probe.shell = "raise" THEN Raised("RuntimeError")
         ELSE IF probe.shell = "none" THEN Raised("RuntimeError")
         ELSE IF probe.kind = "version"
              THEN IF compare(probe.detected, probe.required)
                   THEN Returns("result") ELSE Raised("Exception")
         ELSE IF probe.kind = "token"
              THEN IF Lower(probe.output) = "tok"
                   THEN Returns("result") ELSE Raised("Exception")
         ELSE Returns("result")
    ELSE IF probe.kind = "file"
    THEN IF probe.expected_response = None THEN Raised("ValueError")
         ELSE IF \E line \in SelectedLines(probe) : Lower(line) = "tok"
              THEN Returns("result") ELSE Raised("Exception")
    ELSE PlatformValidateSysPackage(probe)

\* CoreEnvironment._validate_sys_package: the test raises for every response
\* that is not None, and 'in None' raises TypeError
EnvironmentValidateSysPackage(probe) ==
    IF probe.package_manager = None THEN Raised("EnvironmentError")
    ELSE IF probe.shell = "raise" THEN Raised("RuntimeError")
    ELSE IF probe.shell # "none" THEN Raised("EnvironmentError")
    ELSE Raised("TypeError")

\* The try block of CoreEnvironment.validate_prerequisite; the value is
\* command_response when the block is left
EnvironmentValidateTry(probe) ==
    IF probe.kind \in {"token", "version", "plain"}
    THEN IF probe.shell = "raise" THEN [raised |-> TRUE, value |-> None]
         ELSE LET command_response == IF probe.shell = "none" THEN None ELSE "text"
              IN IF probe.kind = "plain"
                 THEN [raised |-> FALSE, value |-> command_response]
                 ELSE IF command_response = None
                 THEN [raised |-> TRUE, value |-> command_response]
                 ELSE IF probe.kind = "version"
                 THEN [raised |-> extract_decimal(probe.detected)
                                     < extract_decimal(probe.required),
                       value |-> command_response]
                 ELSE [raised |-> Lower(probe.output) # "tok",
                       value |-> command_response]
    ELSE IF probe.kind = "file"
    THEN [raised |-> \/ probe.expected_response = None
                     \/ ~\E line \in SelectedLines(probe) : Lower(line) = "tok",
          value |-> None]
    ELSE [raised |-> EnvironmentValidateSysPackage(probe).raised, value |-> None]

\* CoreEnvironment.validate_prerequisite: 'finally: return command_response'
\* ends the call with a return whatever the try block did
EnvironmentValidate(probe) == Returns(EnvironmentValidateTry(probe).value)

\* A step asks for a prerequisite to be validated
ValidateCall(cls, probe) ==
    /\ val_pc = "idle"
    /\ val_pc' = "called"
    /\ val_call' = [cls |-> cls, probe |-> probe]
    /\ val_out' = None
    /\ UNCHANGED <<rvars, shvars, tvars, evars, uvars, mvars, xvars, cvars, kvars,
                   wvars, yvars>>

\* validate_prerequisite runs to its end
ValidateRun ==
    /\ val_pc = "called"
    /\ val_pc' = "done"
    /\ val_out' = IF val_call.cls = "CorePlatform"
                  THEN PlatformValidate(val_call.probe)
                  ELSE EnvironmentValidate(val_call.probe)
    /\ UNCHANGED val_call
    /\ UNCHANGED <<rvars, shvars, tvars, evars, uvars, mvars, xvars, cvars, kvars,
                   wvars, yvars>>

\* The caller has the outcome
ValidateReturn ==
    /\ val_pc = "done"
    /\ val_pc' = "idle"
    /\ val_call' = None
    /\ val_out' = None
    /\ UNCHANGED <<rvars, shvars, tvars, evars, uvars, mvars, xvars, cvars, kvars,
                   wvars, yvars>>

NextValidate ==
    \/ val_pc = "idle" /\ \E cls \in {"CorePlatform", "CoreEnvironment"},
                             probe \in Probes : ValidateCall(cls, probe)
    \/ ValidateRun
    \/ ValidateReturn

InitValidate ==
    /\ ShellIdle
    /\ RunnerIdle
    /\ TrackerIdle /\ EraseIdle /\ UrlIdle /\ MainIdle /\ ExpandIdle
    /\ FurtherIdle

SpecValidate == InitValidate /\ [][NextValidate]_vars

\* The probe could be made (command ran with output, package manager there,
\* expected text given) and what it looked for is there
ProbeMatches(probe) ==
    CASE probe.kind = "token" -> probe.shell = "text" /\ Lower(probe.output) = "tok"
      [] probe.kind = "version" ->
            probe.shell = "text" /\ compare(probe.detected, probe.required)
      [] probe.kind = "file" ->
            /\ probe.expected_response # None
            /\ \E line \in SelectedLines(probe) : Lower(line) = "tok"
      [] probe.kind = "package" ->
            probe.package_manager # None /\ probe.shell = "text" /\ probe.listed
      [] OTHER -> probe.shell = "text"

\* C23: validate_prerequisite raises when the probe does not match and
\* returns when it matches, in CorePlatform and in CoreEnvironment.
C23_MismatchRaises ==
    val_pc = "done" => (val_out.raised <=> ~ProbeMatches(val_call.probe))

\* C24: a 'greater or equal' version prerequisite on a command's output
\* succeeds exactly when the detected version is greater than or equal to
\* the required one, compared component by component.
C24_VersionAtLeast ==
    (val_pc = "done" /\ val_call.probe.kind = "version"
        /\ val_call.probe.shell = "text")
        => (~val_out.raised <=> compare(val_call.probe.detected,
                                        val_call.probe.required))

\* ---------------------------------------------------------------------------
\* Further claims about execute_shell_command
\* ---------------------------------------------------------------------------
\* C25: in automated work mode a call on a command of the interactive list
\* spawns no child and returns a result with return_code 1 and a message
\* saying that it is not allowed.
C25_InteractiveRefusedByReturn ==
    (/\ sh_args.interactive
     /\ sh_args.automated
     /\ ShellDone) =>
        /\ process.state = "none"
        /\ sh_pc = "returned"
        /\ sh_result.return_code = 1
        /\ sh_message = "not allowed in automatic mode"

\* C26: the environment of a child started by CorePlatform's
\* execute_shell_command gives every key the caller's value if the caller
\* defines it, else the Variable Store's, else the process's, and holds no
\* other key.
C26_EnvironmentComposition ==
    (sh_class = "CorePlatform" /\ process.state # "none") =>
        \A k \in Keys :
            LET e == sh_args.env
            IN IF k \in DOMAIN e.caller
               THEN k \in DOMAIN child_env /\ child_env[k] = "caller"
               ELSE IF k \in DOMAIN e.store
               THEN k \in DOMAIN child_env /\ child_env[k] = "store"
               ELSE IF k \in DOMAIN e.process
               THEN k \in DOMAIN child_env /\ child_env[k] = "process"
               ELSE k \notin DOMAIN child_env

\* A child of CorePlatform runs with a key that all three sources define
C26_ChildWithKeyOfAllThree ==
    /\ sh_class = "CorePlatform"
    /\ process.state = "running"
    /\ \E k \in Keys :
        /\ k \in DOMAIN sh_args.env.caller
        /\ k \in DOMAIN sh_args.env.store
        /\ k \in DOMAIN sh_args.env.process
        /\ k \in DOMAIN child_env

\* C28: a call of CorePlatform with the PTY disabled whose child has exited,
\* within its timeout and passing the check, ends by returning the child's
\* return code with all of the child's output captured.
C28_PipesModeReturns ==
    (/\ sh_class = "CorePlatform"
     /\ ~use_pty
     /\ ~sh_args.interactive
     /\ ShellDone
     /\ process.state = "exited"
     /\ ~Expired
     /\ ~check \/ process.returncode = 0) =>
        /\ sh_pc = "returned"
        /\ sh_result.return_code = process.returncode
        /\ received = written

\* C29: once a call is made, its effective timeout is the configured default
\* of its class if the caller passed none and the caller's value otherwise,
\* and a caller's value of 0 never ends in a timeout error.
C29_EffectiveTimeout ==
    sh_pc # "idle" =>
        /\ timeout = IF sh_args.timeout # NoTimeout THEN sh_args.timeout
                     ELSE IF sh_class = "CorePlatform"
                     THEN subprocess_execution_timout
                     ELSE default_execution_time
        /\ sh_args.timeout = 0 => sh_error # "TimeoutError"
\* ---------------------------------------------------------------------------
\* path_create (CorePlatform)
\* ---------------------------------------------------------------------------
\* self._workspace_path, the directory project paths are relative to
workspace_path == <<"">> \o Home \o <<"x">>

\* The path without the slashes it ends with
RECURSIVE StripTrailing(_)
StripTrailing(path) ==
    IF path # <<>> /\ path[Len(path)] = ""
    THEN StripTrailing(SubSeq(path, 1, Len(path) - 1))
    ELSE path

\* posixpath.split: head is what precedes the last slash, without the
\* slashes it ends with unless it is made of slashes; tail is what follows
split(path) ==
    LET n == Len(path)
        front == SubSeq(path, 1, n - 1)
    IN IF n = 1 THEN [head |-> <<"">>, tail |-> path[1]]
       ELSE [head |-> IF \A i \in 1..(n - 1) : front[i] = ""
                      THEN Append(front, "")
                      ELSE StripTrailing(front),
             tail |-> path[n]]

\* os.path.join(a, b): b alone if it is absolute, else b after a and a slash
join(a, b) ==
    IF Len(b) > 1 /\ b[1] = "" THEN b
    ELSE IF b = <<"">> THEN Append(StripTrailing(a), "")
    ELSE StripTrailing(a) \o b

\* os.mkdir: the kernel makes one directory below an existing one
mkdir(path, dirs) ==
    LET last == LastPiece(path)
        stripped == StripTrailing(path)
        parent == Walk(SubSeq(stripped, 1, Len(stripped) - 1),
                       IF LeadingSlashes(path) > 0 THEN Root ELSE Cwd, dirs)
    IN IF path = <<"">> THEN [dirs |-> dirs, error |-> "FileNotFoundError"]
       ELSE IF last = "" THEN [dirs |-> dirs, error |-> "FileExistsError"]
       ELSE IF parent = NoDir THEN [dirs |-> dirs, error |-> "FileNotFoundError"]
       ELSE IF last \in {".", ".."} \/ Append(parent, last) \in dirs
       THEN [dirs |-> dirs, error |-> "FileExistsError"]
       ELSE [dirs |-> dirs \cup {Append(parent, last)}, error |-> None]

\* os.makedirs: make the head first if it does not exist, then the leaf;
\* an existing leaf is an error unless exist_ok
RECURSIVE makedirs(_, _, _)
makedirs(name, exist_ok, dirs) ==
    LET first == split(name)
        parts == IF first.tail = "" THEN split(first.head) ELSE first
        recurse == /\ parts.head # <<"">>
                   /\ parts.tail # ""
                   /\ Resolve(parts.head, dirs) = NoDir
        made == IF recurse THEN makedirs(parts.head, exist_ok, dirs)
                ELSE [dirs |-> dirs, error |-> None]
    IN IF made.error \notin {None, "FileExistsError"} THEN made
       ELSE IF recurse /\ parts.tail = "." THEN [dirs |-> made.dirs, error |-> None]
       ELSE LET leaf == mkdir(name, made.dirs)
            IN IF leaf.error = None THEN leaf
               ELSE IF ~exist_ok \/ Resolve(name, made.dirs) = NoDir THEN leaf
               ELSE [dirs |-> made.dirs, error |-> None]

\* path_create with exist_ok=erase_if_exist handed to os.makedirs
path_create_exist_ok_inverted(path, erase_if_exist, project_path, dirs) ==
    IF path = <<"">> THEN [error |-> "TypeError", dirs |-> dirs]
    ELSE LET key == ExpandKey(path)
             joined == IF project_path THEN join(workspace_path, key) ELSE key
             full_path == ExpandUser(ExpandVars(joined))
             erased == IF erase_if_exist /\ Resolve(full_path, dirs) # NoDir
                       THEN path_erase("CorePlatform", full_path, TRUE, FALSE, dirs)
                       ELSE [error |-> None, dirs |-> dirs]
             made == makedirs(full_path, erase_if_exist, erased.dirs)
         IN IF erased.error # None THEN [error |-> "Exception", dirs |-> erased.dirs]
            ELSE IF made.error # None THEN [error |-> "Exception", dirs |-> made.dirs]
            ELSE made

\* path_create(path=...): the exception raised (None for a return) and the
\* directories left.  An empty path leaves paths None and the for loop
\* raises TypeError; any exception of the loop body is raised as Exception.
path_create(path, erase_if_exist, project_path, dirs) ==
    IF path = <<"">> THEN [error |-> "TypeError", dirs |-> dirs]
    ELSE LET key == ExpandKey(path)
             joined == IF project_path THEN join(workspace_path, key) ELSE key
             full_path == ExpandUser(ExpandVars(joined))
             erased == IF erase_if_exist /\ Resolve(full_path, dirs) # NoDir
                       THEN path_erase("CorePlatform", full_path, TRUE, FALSE, dirs)
                       ELSE [error |-> None, dirs |-> dirs]
             made == makedirs(full_path, ~erase_if_exist, erased.dirs)
         IN IF erased.error # None THEN [error |-> "Exception", dirs |-> erased.dirs]
            ELSE IF made.error # None THEN [error |-> "Exception", dirs |-> made.dirs]
            ELSE made

\* The first call, path_create(path), relative to the workspace or not
PathCreateCall(path, project_path) ==
    /\ create_pc = "idle"
    /\ LET r == path_create(path, FALSE, project_path, fs)
       IN /\ fs' = r.dirs
          /\ fs_created' = r.dirs
          /\ create_error' = r.error
          /\ create_pc' = IF r.error = None THEN "created" ELSE "raised"
    /\ create_call' = [path |-> path, project_path |-> project_path]
    /\ UNCHANGED <<erase_pc, erase_call, erase_error>>
    /\ UNCHANGED <<rvars, shvars, tvars, uvars, mvars, xvars, pvars, cvars, wvars,
                   yvars>>

\* The second call on the same path, with erase_if_exist=False
PathCreateAgain ==
    /\ create_pc = "created"
    /\ LET r == path_create(create_call.path, FALSE, create_call.project_path, fs)
       IN /\ fs' = r.dirs
          /\ create_error' = r.error
          /\ create_pc' = IF r.error = None THEN "created_again" ELSE "raised_again"
    /\ UNCHANGED <<create_call, fs_created>>
    /\ UNCHANGED <<erase_pc, erase_call, erase_error>>
    /\ UNCHANGED <<rvars, shvars, tvars, uvars, mvars, xvars, pvars, cvars, wvars,
                   yvars>>

NextCreate ==
    \/ create_pc = "idle" /\
       \E path \in Paths, project_path \in BOOLEAN :
           PathCreateCall(path, project_path)
    \/ PathCreateAgain

InitCreate == ShellIdle /\ RunnerIdle /\ OthersIdle

SpecCreate == InitCreate /\ [][NextCreate]_vars

\* C27: path_create(P) followed by path_create(P, erase_if_exist=false): the
\* second call does not raise and leaves the directories as the first call
\* left them.
C27_CreateTwiceUnchanged ==
    /\ create_pc # "raised_again"
    /\ create_pc = "created_again" => fs = fs_created

\* The second call has returned on a directory that the first call made
C27_CreatedThenCreatedAgain ==
    /\ create_pc = "created_again"
    /\ fs_created # Directories
\* ---------------------------------------------------------------------------
\* execute_python_method: wrapping and filtering of the arguments
\* ---------------------------------------------------------------------------
\* A mapping is the set of its values, each with the keys that lead to it:
\* {"a": 1, "cwd": {"a": 2, "b": {}}} is the leaves at <<"a">> and
\* <<"cwd", "a">> and the empty mapping at <<"cwd", "b">>.
ArgKeys == {"a", "cwd", "arguments"}
ArgPaths == UNION {[1..n -> ArgKeys] : n \in 1..MaxDepth}
Entries == [path : ArgPaths, kind : {"leaf", "dict"}]

RECURSIVE EntrySets(_)
EntrySets(n) ==
    IF n = 0 THEN {{}}
    ELSE LET smaller == EntrySets(n - 1)
         IN smaller \cup {m \cup {e} : m \in smaller, e \in Entries}

\* No value lies at or below another value's place
Mappings ==
    {m \in EntrySets(MaxEntries) :
        \A e1, e2 \in m : e1 # e2 => ~IsPrefix(e1.path, e2.path)}

\* The parameters of the operation, self left out; 'arguments' has no default
Signatures == {<<"arguments">>, <<"arguments", "cwd">>, <<"cwd">>}

\* len(params) >= 1 and params[0].name == "arguments"
is_wrapped_style(sig) == Len(sig) >= 1 /\ sig[1] = "arguments"

\* "arguments" not in arguments
HasKey(m, key) == \E e \in m : e.path[1] = key

\* arguments = {"arguments": arguments}
Wrapped(m) ==
    IF m = {} THEN {[path |-> <<"arguments">>, kind |-> "dict"]}
    ELSE {[path |-> <<"arguments">> \o e.path, kind |-> e.kind] : e \in m}

\* The last key of the way to a value
BaseKey(e) == e.path[Len(e.path)]

\* CoreToolBox.filter_kwargs_for_method: every leaf, at whatever depth, goes
\* by its last key to method_kwargs if the signature has a parameter of that
\* name and else to extra_kwargs; a mapping is walked into and never
\* assigned.  A value is named by its place in kwargs.
filter_kwargs_for_method(kwargs, sig) ==
    LET leaves == {e \in kwargs : e.kind = "leaf"}
        parameters == {sig[i] : i \in DOMAIN sig}
        Named(keys) ==
            [k \in {BaseKey(e) : e \in {l \in leaves : BaseKey(l) \in keys}} |->
                (CHOOSE e \in leaves : BaseKey(e) = k).path]
    IN IF \E e1, e2 \in leaves : e1 # e2 /\ BaseKey(e1) = BaseKey(e2)
       THEN [error |-> "ValueError", method_kwargs |-> <<>>, extra_kwargs |-> <<>>]
       ELSE [error |-> None,
             method_kwargs |-> Named(parameters),
             extra_kwargs |-> Named(ArgKeys \ parameters)]

\* execute_python_method from the wrapping to the call method(**method_kwargs),
\* which raises TypeError when the parameter 'arguments' is given no value
ExecutePythonMethod(sig, arguments) ==
    /\ wrap_pc = "idle"
    /\ wrap_call' = [sig |-> sig, arguments |-> arguments]
    /\ LET kwargs == IF is_wrapped_style(sig) /\ ~HasKey(arguments, "arguments")
                     THEN Wrapped(arguments) ELSE arguments
           filtered == filter_kwargs_for_method(kwargs, sig)
           raised == IF filtered.error # None THEN filtered.error
                     ELSE IF /\ \E i \in DOMAIN sig : sig[i] = "arguments"
                             /\ "arguments" \notin DOMAIN filtered.method_kwargs
                     THEN "TypeError"
                     ELSE None
       IN /\ wrap_out' = [error |-> raised, arguments |-> kwargs,
                          method_kwargs |-> filtered.method_kwargs,
                          extra_kwargs |-> filtered.extra_kwargs]
          /\ wrap_pc' = IF raised = None THEN "called" ELSE "raised"
    /\ UNCHANGED <<rvars, shvars, tvars, evars, uvars, mvars, xvars, pvars, cvars,
                   kvars, yvars>>

NextWrap ==
    wrap_pc = "idle" /\
        \E sig \in Signatures, arguments \in Mappings :
            ExecutePythonMethod(sig, arguments)

InitWrap == ShellIdle /\ RunnerIdle /\ OthersIdle

SpecWrap == InitWrap /\ [][NextWrap]_vars

\* C30: when the operation's first parameter is 'arguments' and the step's
\* mapping has no 'arguments' key, the operation is called with 'arguments'
\* bound to the whole mapping, which lies at <<"arguments">> after the
\* wrapping, with no other parameter bound and nothing set aside as extra.
C30_WrappedMappingIsBound ==
    (/\ wrap_pc # "idle"
     /\ is_wrapped_style(wrap_call.sig)
     /\ ~HasKey(wrap_call.arguments, "arguments")) =>
        /\ wrap_pc = "called"
        /\ wrap_out.arguments = Wrapped(wrap_call.arguments)
        /\ wrap_out.method_kwargs = [k \in {"arguments"} |-> <<"arguments">>]
        /\ wrap_out.extra_kwargs = <<>>
\* ---------------------------------------------------------------------------
\* Further claims about run_sequence
\* ---------------------------------------------------------------------------
\* C31: a run that returns has emitted the elapsed-time line: the result
\* "Install took" was written by a set_result call that returned True.
C31_ElapsedLineEmitted ==
    pc = "returned" => HasTag(<<idx, 0>>, "Install took")

\* C32: the step number carried by the error of an aborted run is the
\* position in the steps list of the step the loop was at.
C32_ErrorCarriesPosition ==
    (pc = "raised" /\ error.type = "RuntimeError") => error.step = idx

\* The last announcement made to the tracker
LastAnnounced ==
    CHOOSE n \in DOMAIN calls :
        /\ calls[n].op = "set_pre"
        /\ \A m \in DOMAIN calls : calls[m].op = "set_pre" => m <= n

\* C33: when a run aborts on a step, exactly one result tag was written
\* after the announcement of the step that failed, and it is "Error".
C33_OnlyErrorOnFailingLine ==
    (pc = "raised" /\ error.type = "RuntimeError") =>
        LET tags == {n \in DOMAIN calls :
                        n > LastAnnounced /\ calls[n].op = "set_result" /\ calls[n].ok}
        IN /\ Cardinality(tags) = 1
           /\ \A n \in tags : calls[n].text = "Error"
\* C38: a condition, which execute_python_method evaluates in quiet mode,
\* whose operation raises yields a result with a non-zero return code: the
\* conditional step takes the way of a failed condition and no
\* AttributeError comes of reading return_code.
C38_QuietYieldsResult ==
    \A i \in 1..MaxSteps :
        (/\ IsConditional(i)
         /\ DispatchedWith(<<i, 0>>, {"cfe", "exc"})) =>
            /\ LET r == execute_python_method(
                            dispatched[CHOOSE n \in DOMAIN dispatched :
                                dispatched[n].ctx = <<i, 0>>].outcome, <<i, 0>>, TRUE)
               IN r.kind = "result" /\ r.return_code # 0
            /\ error.cause # "AttributeError"

\* ---------------------------------------------------------------------------
\* Further claim about path_erase
\* ---------------------------------------------------------------------------
\* C36: when CorePlatform's path_erase returns without raising, the
\* directory that its argument names once "~" and variables are expanded
\* does not exist.
C36_ReturnedMeansGone ==
    (/\ erase_pc = "done"
     /\ erase_call.cls = "CorePlatform"
     /\ erase_error = None
     /\ erase_call.target # NoDir) =>
        erase_call.target \notin fs

\* ---------------------------------------------------------------------------
\* Termination of CoreEnvironment.execute_shell_command
\* ---------------------------------------------------------------------------
NextEnvShell ==
    \/ \E c \in BOOLEAN, t \in {NoTimeout} \cup (0..MaxTimeout),
          p \in BOOLEAN, spawn \in BOOLEAN, e \in EnvSources :
          EnvShellCall(c, t, p, spawn, e)
    \/ ChildWrite
    \/ \E rc \in ReturnCodes : ChildExit(rc)
    \/ ClockTick
    \/ EnvStartWait
    \/ EnvLoop

\* The supervisor keeps running its loops and the child terminates
SpecEnvShell ==
    /\ InitShell
    /\ [][NextEnvShell]_vars
    /\ WF_vars(EnvStartWait)
    /\ WF_vars(EnvLoop)
    /\ WF_vars(\E rc \in ReturnCodes : ChildExit(rc))

\* C39: a call of CoreEnvironment's execute_shell_command that has spawned
\* its child ends, by return or by exception, whenever the child exits.
C39_EnvTerminates ==
    (sh_class = "CoreEnvironment" /\ sh_pc \in {"env_wait", "env_loop"}) ~> ShellDone
\* ---------------------------------------------------------------------------
\* execute_shell_command with shell=False: the test for compound expressions
\* ---------------------------------------------------------------------------
\* A token is the sequence of its characters; "|" and ";" stand for the
\* characters of "|&;<>()"
TokenChars == {"l", "|", ";", "/"}
Tokens == UNION {[1..n -> TokenChars] : n \in 1..MaxToken}
CommandLists == UNION {[1..n -> Tokens] : n \in 1..MaxTokens}

\* any(c in token for c in "|&;<>()")
Compound(token) == \E i \in DOMAIN token : token[i] \in {"|", ";"}

\* os.path.basename: what follows the last slash
basename(token) ==
    LET slashes == {i \in DOMAIN token : token[i] = "/"}
    IN IF slashes = {} THEN token
       ELSE SubSeq(token, (CHOOSE i \in slashes : \A j \in slashes : j <= i) + 1,
                   Len(token))

\* command = os.path.basename(command_list[0]); with shell=False a compound
\* command raises ValueError, else the token list goes to Popen
ExecuteTokens(shell, command_list) ==
    /\ cmd_pc = "idle"
    /\ cmd_call' = [shell |-> shell, command_list |-> command_list]
    /\ LET command == basename(command_list[1])
       IN cmd_pc' = IF ~shell /\ Compound(command) THEN "raised" ELSE "spawned"
    /\ UNCHANGED <<rvars, shvars, tvars, evars, uvars, mvars, xvars, pvars, cvars,
                   kvars, wvars, dvars>>

NextCompound ==
    cmd_pc = "idle" /\
        \E shell \in BOOLEAN, command_list \in CommandLists :
            ExecuteTokens(shell, command_list)

InitCompound == ShellIdle /\ RunnerIdle /\ OthersIdle

SpecCompound == InitCompound /\ [][NextCompound]_vars

\* C34: with shell=False a command in which any token holds one of the
\* characters of "|&;<>()" is refused with ValueError and no child is
\* spawned.
C34_CompoundTokensRejected ==
    (/\ cmd_pc # "idle"
     /\ ~cmd_call.shell
     /\ \E i \in DOMAIN cmd_call.command_list : Compound(cmd_call.command_list[i])) =>
        cmd_pc = "raised"

\* ---------------------------------------------------------------------------
\* execute_shell_command over a PTY without timeout: what becomes of the
\* bytes of the child's output
\* ---------------------------------------------------------------------------
\* "t" is the searched token, "x" any other character, "LF" a newline and
\* "NUL" the byte 0
Bytes == {"t", "x", "LF", "NUL"}

\* _decode_and_queue: the text of the buffer, stripped, is queued unless it
\* is empty
decode_and_queue(input_buffer, message_queue) ==
    LET NotSpace(b) == b # "LF"
        clear_text == SelectSeq(input_buffer, NotSpace)
    IN IF clear_text # <<>> THEN Append(message_queue, clear_text)
       ELSE message_queue

\* for b in received_bytes: a byte 0 ends the loop; any other byte goes to
\* line_buffer, and a newline queues the line
RECURSIVE ForEachByte(_, _)
ForEachByte(received_bytes, st) ==
    IF received_bytes = <<>> THEN st
    ELSE LET b == Head(received_bytes)
             buffer == Append(st.line_buffer, b)
             all == Append(st.assembled, b)
         IN IF b = "NUL" THEN st
            ELSE IF b = "LF"
            THEN ForEachByte(Tail(received_bytes),
                             [line_buffer |-> <<>>,
                              lines_queue |-> decode_and_queue(buffer, st.lines_queue),
                              assembled |-> all])
            ELSE ForEachByte(Tail(received_bytes),
                             [line_buffer |-> buffer,
                              lines_queue |-> st.lines_queue,
                              assembled |-> all])

\* searched_token in command_response
TokenIn(queue) ==
    \E i \in DOMAIN queue : \E j \in DOMAIN queue[i] : queue[i][j] = "t"

\* The call: the child is spawned on a PTY
OutputCall(token, m, c) ==
    /\ out_pc = "idle"
    /\ out_pc' = "gate"
    /\ out_call' = [searched_token |-> token, max_read_chunk |-> m, check |-> c]
    /\ out_child' = [state |-> "running", returncode |-> 0]
    /\ UNCHANGED <<stream, child_sent, line_buffer, lines_queue, assembled, out_result>>
    /\ UNCHANGED <<rvars, shvars, tvars, evars, uvars, mvars, xvars, pvars, cvars,
                   kvars, wvars, nvars>>

\* The child writes a byte
OutputChildWrite(b) ==
    /\ out_pc \in {"gate", "loop"}
    /\ out_child.state = "running"
    /\ Len(child_sent) < MaxBytes
    /\ stream' = Append(stream, b)
    /\ child_sent' = Append(child_sent, b)
    /\ UNCHANGED <<out_pc, out_call, out_child, line_buffer, lines_queue,
                   assembled, out_result>>
    /\ UNCHANGED <<rvars, shvars, tvars, evars, uvars, mvars, xvars, pvars, cvars,
                   kvars, wvars, nvars>>

\* The child exits
OutputChildExit(rc) ==
    /\ out_pc \in {"gate", "loop"}
    /\ out_child.state = "running"
    /\ out_child' = [state |-> "exited", returncode |-> rc]
    /\ UNCHANGED <<out_pc, out_call, stream, child_sent, line_buffer, lines_queue,
                   assembled, out_result>>
    /\ UNCHANGED <<rvars, shvars, tvars, evars, uvars, mvars, xvars, pvars, cvars,
                   kvars, wvars, nvars>>

\* while not output_ready: readable, or the child is gone without output
\* and the call returns response=None with the child's return code
OutputGate ==
    /\ out_pc = "gate"
    /\ stream # <<>> \/ out_child.state = "exited"
    /\ IF stream # <<>>
       THEN /\ out_pc' = "loop"
            /\ UNCHANGED out_result
       ELSE /\ out_pc' = "returned"
            /\ out_result' = [return_code |-> out_child.returncode, early |-> TRUE]
    /\ UNCHANGED <<out_call, out_child, stream, child_sent, line_buffer, lines_queue,
                   assembled>>
    /\ UNCHANGED <<rvars, shvars, tvars, evars, uvars, mvars, xvars, pvars, cvars,
                   kvars, wvars, nvars>>

\* while True: read up to max_read_chunk bytes and go through them
OutputRead ==
    /\ out_pc = "loop"
    /\ stream # <<>>
    /\ LET n == Min(out_call.max_read_chunk, Len(stream))
           st == ForEachByte(SubSeq(stream, 1, n),
                             [line_buffer |-> line_buffer,
                              lines_queue |-> lines_queue,
                              assembled |-> assembled])
       IN /\ stream' = SubSeq(stream, n + 1, Len(stream))
          /\ line_buffer' = st.line_buffer
          /\ lines_queue' = st.lines_queue
          /\ assembled' = st.assembled
    /\ UNCHANGED <<out_pc, out_call, out_child, child_sent, out_result>>
    /\ UNCHANGED <<rvars, shvars, tvars, evars, uvars, mvars, xvars, pvars, cvars,
                   kvars, wvars, nvars>>

\* Nothing readable and the child is gone: the remaining bytes are queued,
\* then the return code and the searched token decide
OutputPost ==
    /\ out_pc = "loop"
    /\ stream = <<>>
    /\ out_child.state = "exited"
    /\ LET queue == IF line_buffer # <<>>
                    THEN decode_and_queue(line_buffer, lines_queue)
                    ELSE lines_queue
           return_code == out_child.returncode
       IN /\ lines_queue' = queue
          /\ out_result' = [return_code |-> return_code, early |-> FALSE]
          /\ out_pc' = IF out_call.check /\ return_code # 0 THEN "raised"
                       ELSE IF /\ out_call.searched_token
                               /\ queue # <<>>
                               /\ ~TokenIn(queue)
                       THEN "raised"
                       ELSE "returned"
    /\ UNCHANGED <<out_call, out_child, stream, child_sent, line_buffer, assembled>>
    /\ UNCHANGED <<rvars, shvars, tvars, evars, uvars, mvars, xvars, pvars, cvars,
                   kvars, wvars, nvars>>

NextOutput ==
    \/ \E token \in BOOLEAN, m \in 1..MaxChunk, c \in BOOLEAN : OutputCall(token, m, c)
    \/ \E b \in Bytes : OutputChildWrite(b)
    \/ \E rc \in ReturnCodes : OutputChildExit(rc)
    \/ OutputGate
    \/ OutputRead
    \/ OutputPost

InitOutput == ShellIdle /\ RunnerIdle /\ OthersIdle

SpecOutput == InitOutput /\ [][NextOutput]_vars

\* The bytes read from the child so far
Received == SubSeq(child_sent, 1, Len(child_sent) - Len(stream))

\* C35: a call with a searched token that ends in success, a returned result
\* with return code 0, has the token in the output it captured.
C35_SuccessHasToken ==
    (/\ out_call.searched_token
     /\ out_pc = "returned"
     /\ out_result.return_code = 0) =>
        TokenIn(lines_queue)

\* C37: the bytes that went into line assembly are the bytes read from the
\* child, in their order, bytes 0 apart.
C37_EveryByteAssembled ==
    LET NotNul(b) == b # "NUL"
    IN assembled = SelectSeq(Received, NotNul)
====
